---------------------------- MODULE Spec2Model ----------------------------
(***************************************************************************)
(* Model of the data processing and clustering pipeline of the urban       *)
(* environmental quality dashboard (src/data/process_data.py and           *)
(* src/models/clustering.py), of the retry loop of its OpenAQ client       *)
(* (src/data/fetch_openaq.py) and of two dashboard callbacks               *)
(* (src/dashboard/callbacks.py).                                           *)
(*                                                                         *)
(* Tables (pandas DataFrames) are sequences of records, one record per     *)
(* row.  A missing cell (NaN / NA) is the value NaN.  Numbers are exact:   *)
(* a concentration is an integer number of units, and the unit is chosen   *)
(* per specification so that every division the code performs is exact.   *)
(*                                                                         *)
(* The module holds one specification per part of the program:             *)
(*   SpecFill     fill_missing_values on a monthly table                   *)
(*   SpecCluster  perform_clustering on a city summary table               *)
(*   SpecMain     main(), the pipeline from the loaded tables to the       *)
(*                clustered table                                          *)
(*   SpecAqi      compute_aqi on two concentrations                        *)
(*   SpecOptimal  find_optimal_clusters on a feature matrix                *)
(*   SpecRequest  OpenAQFetcher._request, one call                         *)
(*   SpecSelection  update_selection, the events of the selection store    *)
(*   SpecCharts   update_all_charts, the filtered city summary             *)
(***************************************************************************)
EXTENDS Integers, Sequences, FiniteSets, TLC

VARIABLES
    \* fill_missing_values
    df,           \* the table it is given, changed in place
    df_in,        \* the table as it was when fill_missing_values was called
    fill_pc,      \* "call" before fill_missing_values has run, "done" after
    \* perform_clustering
    city_df,      \* the city summary table perform_clustering is called on
    np_random,    \* the state of numpy's global random generator
    kmeans_fits,  \* the labelling KMeans has produced for city_df, per random state
    n_calls,      \* number of calls of perform_clustering so far
    first_result, \* what the first call returned or raised
    result,       \* what the latest call returned or raised
    \* main (process_data.py)
    pc,           \* the step main() is at
    importable,   \* whether `from clustering import ...` succeeds
    aq_df,        \* what load_openaq_data returns (empty: no file)
    supp_df,      \* what load_supplementary_data returns (empty: no file)
    monthly_df,   \* merged_df = filled_df = processed_df, one table changed in place
    ts_df,        \* what generate_timeseries_csv returns
    summary_df,   \* what generate_summary_csv returns
    clustered_df, \* what run_clustering returns
    files,        \* the output files written so far
    log,          \* the log lines that tell how the run went
    \* compute_aqi
    pm25_a,       \* a PM2.5 concentration compute_aqi is called on
    pm25_b,       \* a second one, not below the first
    aqi_a,        \* what compute_aqi returned for pm25_a
    aqi_b,        \* what compute_aqi returned for pm25_b
    aqi_pc,       \* "call" before the two calls of compute_aqi, "done" after
    \* find_optimal_clusters
    X_scaled,     \* the feature matrix it is given, as its numbers of rows
    max_k,        \* the largest K to test
    inertias,     \* the inertia of every K tested so far
    silhouette_scores, \* the silhouette score of every K tested so far
    optimal,      \* what find_optimal_clusters returned or raised
    \* OpenAQFetcher._request
    retries,      \* the number of attempts the caller allows
    attempt,      \* the loop variable: the attempts made so far
    responses,    \* what every attempt so far has met, in order
    response,     \* what _request returned or raised
    \* dashboard callbacks
    df_summary,   \* the city summary register_callbacks is given
    current_selection, \* the data of selected-cities-store
    inputs,       \* the properties of the components update_selection reads
    filters,      \* the filter values update_all_charts was last called with
    df_filtered,  \* the filtered summary it passed to the charts
    charts_pc     \* "call" before update_all_charts has run, "done" after

fillVars == <<df, df_in, fill_pc>>

mainVars == <<pc, importable, aq_df, supp_df, monthly_df, ts_df, summary_df,
              clustered_df, files, log>>

clusterVars == <<city_df, np_random, kmeans_fits, n_calls, first_result, result>>

aqiVars == <<pm25_a, pm25_b, aqi_a, aqi_b, aqi_pc>>

optVars == <<X_scaled, max_k, inertias, silhouette_scores, optimal>>

reqVars == <<retries, attempt, responses, response>>

dashVars == <<df_summary, current_selection, inputs, filters, df_filtered,
              charts_pc>>

toolVars == <<optVars, reqVars, dashVars>>

vars == <<fillVars, clusterVars, mainVars, aqiVars, toolVars>>

(***************************************************************************)
(* Missing values.                                                         *)
(***************************************************************************)
NaN == -1

isna(x) == x = NaN

notna(x) == x # NaN

Range(s) == {s[i] : i \in DOMAIN s}

\* The values of the variables of a part of the program that a specification
\* of another part does not run.
FillIdle == df = <<>> /\ df_in = <<>> /\ fill_pc = "idle"

ClusterIdle ==
    /\ city_df = <<>> /\ np_random = 0 /\ kmeans_fits = <<>>
    /\ n_calls = 0 /\ first_result = <<>> /\ result = <<>>

MainIdle ==
    /\ pc = "idle" /\ importable = TRUE /\ aq_df = <<>> /\ supp_df = <<>>
    /\ monthly_df = <<>> /\ ts_df = <<>> /\ summary_df = <<>>
    /\ clustered_df = <<>> /\ files = {} /\ log = {}

AqiIdle ==
    /\ pm25_a = NaN /\ pm25_b = NaN /\ aqi_a = NaN /\ aqi_b = NaN
    /\ aqi_pc = "idle"

OptIdle ==
    /\ X_scaled = <<>> /\ max_k = 0 /\ inertias = <<>>
    /\ silhouette_scores = <<>> /\ optimal = <<>>

ReqIdle == retries = 0 /\ attempt = 0 /\ responses = <<>> /\ response = <<>>

DashIdle ==
    /\ df_summary = <<>> /\ current_selection = <<>> /\ inputs = <<>>
    /\ filters = <<>> /\ df_filtered = <<>> /\ charts_pc = "idle"

ToolsIdle == OptIdle /\ ReqIdle /\ DashIdle

(***************************************************************************)
(* Bounds of the model.                                                    *)
(***************************************************************************)
\* Largest number of rows of a monthly table given to fill_missing_values.
MaxRows == 5

\* Largest number of cities of a summary table given to perform_clustering.
MaxCities == 5

\* Largest number of calls of perform_clustering on one table.
MaxCalls == 2

\* Largest number of cities and of months per city in the tables main loads.
MaxPipeCities == 4

MaxMonths == 3

\* The cities of the tables main loads, in the order of their names.
PipeCities == <<"Cairo", "Delhi", "Lima", "Oslo", "Vienna", "Zagreb">>

(***************************************************************************)
(* fill_missing_values (process_data.py).                                  *)
(*                                                                         *)
(* Known concentrations are multiples of Scale units, so that the linear   *)
(* interpolation between two known values over up to 6 steps is exact.     *)
(***************************************************************************)
Scale == 3 * 4 * 5

PollutantCols == <<"pm25", "pm10", "no2", "o3">>

\* limit=2 of Series.interpolate
InterpolateLimit == 2

\* The largest index below i (0 if none) whose value in s is known.
PrevValid(s, i) ==
    LET c == {p \in 1..(i - 1) : notna(s[p])}
    IN  IF c = {} THEN 0 ELSE CHOOSE p \in c : \A r \in c : r <= p

\* The smallest index above i (0 if none) whose value in s is known.
NextValid(s, i) ==
    LET c == {q \in (i + 1)..Len(s) : notna(s[q])}
    IN  IF c = {} THEN 0 ELSE CHOOSE q \in c : \A r \in c : q <= r

\* Mutant of interpolate: the limit is ignored, every missing value after a
\* known value is filled.
interpolate_no_limit(s, limit) ==
    [i \in DOMAIN s |->
        IF notna(s[i]) THEN s[i]
        ELSE LET p == PrevValid(s, i)
                 q == NextValid(s, i)
             IN  IF p = 0 THEN NaN
                 ELSE IF q = 0 THEN s[p]
                 ELSE s[p] + ((i - p) * (s[q] - s[p])) \div (q - p)]

\* Mutant of interpolate: limit_direction="both", which also fills up to
\* `limit` missing values before the first known value with that value.
interpolate_both_directions(s, limit) ==
    [i \in DOMAIN s |->
        IF notna(s[i]) THEN s[i]
        ELSE LET p == PrevValid(s, i)
                 q == NextValid(s, i)
             IN  IF p = 0 /\ q = 0 THEN NaN
                 ELSE IF p = 0 THEN (IF q - i <= limit THEN s[q] ELSE NaN)
                 ELSE IF q = 0 THEN (IF i - p <= limit THEN s[p] ELSE NaN)
                 ELSE IF i - p > limit /\ q - i > limit THEN NaN
                 ELSE s[p] + ((i - p) * (s[q] - s[p])) \div (q - p)]

(***************************************************************************)
(* Series.interpolate(method="linear", limit=limit), with pandas' default  *)
(* limit_direction="forward" and limit_area=None.  The values are taken as *)
(* equally spaced.  A missing value is filled when a known value precedes  *)
(* it and it is among the first `limit` missing values after that known    *)
(* value; it is then the linear interpolation between the neighbouring     *)
(* known values, or the last known value when no known value follows.      *)
(* Missing values before the first known value stay missing.               *)
(***************************************************************************)
interpolate(s, limit) ==
    [i \in DOMAIN s |->
        IF notna(s[i]) THEN s[i]
        ELSE LET p == PrevValid(s, i)
                 q == NextValid(s, i)
             IN  IF p = 0 \/ i - p > limit THEN NaN
                 ELSE IF q = 0 THEN s[p]
                 ELSE s[p] + ((i - p) * (s[q] - s[p])) \div (q - p)]

\* The mask left out: the row numbers of all rows of table t.
CityRows_every_city(t, city) == [i \in DOMAIN t |-> i]

\* The row numbers of table t selected by the mask t["city"] == city, in row order.
CityRows(t, city) == SelectSeq([i \in DOMAIN t |-> i], LAMBDA i : t[i].city = city)

\* The position of row number i in the list of row numbers rows.
IndexIn(rows, i) == CHOOSE k \in DOMAIN rows : rows[k] = i

\* Mutant of FillCityCol: the whole column is interpolated, across the rows
\* of all cities, and the city's rows take their values from it.
FillCityCol_whole_column(t, city, col) ==
    LET out == interpolate([i \in DOMAIN t |-> t[i][col]], InterpolateLimit)
    IN  [i \in DOMAIN t |->
            IF t[i].city = city THEN [t[i] EXCEPT ![col] = out[i]] ELSE t[i]]

\* df.loc[mask, col] = df.loc[mask, col].interpolate(method="linear", limit=2)
FillCityCol(t, city, col) ==
    LET rows   == CityRows(t, city)
        series == [k \in DOMAIN rows |-> t[rows[k]][col]]
        out    == interpolate(series, InterpolateLimit)
    IN  [i \in DOMAIN t |->
            IF t[i].city = city
            THEN [t[i] EXCEPT ![col] = out[IndexIn(rows, i)]]
            ELSE t[i]]

\* The inner loop: for col in ["pm25", "pm10", "no2", "o3"]: if col in df.columns
RECURSIVE FillCols(_, _, _)
FillCols(t, city, k) ==
    IF k > Len(PollutantCols) THEN t
    ELSE LET col == PollutantCols[k]
         IN  IF t # <<>> /\ col \in DOMAIN t[1]
             THEN FillCols(FillCityCol(t, city, col), city, k + 1)
             ELSE FillCols(t, city, k + 1)

\* df["city"].unique(): the cities in order of first appearance.
RECURSIVE unique(_)
unique(s) ==
    IF s = <<>> THEN <<>>
    ELSE LET init == unique(SubSeq(s, 1, Len(s) - 1))
             x    == s[Len(s)]
         IN  IF x \in Range(init) THEN init ELSE Append(init, x)

\* The outer loop: for city in df["city"].unique()
RECURSIVE FillCities(_, _, _)
FillCities(t, cities, k) ==
    IF k > Len(cities) THEN t
    ELSE FillCities(FillCols(t, cities[k], 1), cities, k + 1)

\* fill_missing_values that drops the rows whose PM2.5 is still missing.
fill_missing_values_dropna(t) ==
    SelectSeq(FillCities(t, unique([i \in DOMAIN t |-> t[i].city]), 1),
              LAMBDA row : notna(row.pm25))

fill_missing_values(t) ==
    FillCities(t, unique([i \in DOMAIN t |-> t[i].city]), 1)

(***************************************************************************)
(* Specification SpecFill: fill_missing_values called once on a monthly    *)
(* table of up to MaxRows rows of two cities, in any row order.            *)
(***************************************************************************)
FillCityNames == {"Vienna", "Delhi"}

FillValues == {NaN, Scale, 3 * Scale}

FillRow == [city : FillCityNames, pm25 : FillValues]

FillTables == UNION {[1..n -> FillRow] : n \in 0..MaxRows}

InitFill ==
    /\ df \in FillTables
    /\ df_in = df
    /\ fill_pc = "call"
    /\ ClusterIdle
    /\ MainIdle
    /\ AqiIdle
    /\ ToolsIdle

FillMissingValues ==
    /\ fill_pc = "call"
    /\ df' = fill_missing_values(df)
    /\ fill_pc' = "done"
    /\ UNCHANGED <<df_in, clusterVars, mainVars, aqiVars, toolVars>>

NextFill == FillMissingValues

SpecFill == InitFill /\ [][NextFill]_vars

(***************************************************************************)
(* Claims about fill_missing_values (checked under SpecFill).              *)
(***************************************************************************)
\* Column col of the rows of city in table t, in row order.
CitySeries(t, city, col) ==
    LET rows == CityRows(t, city) IN [k \in DOMAIN rows |-> t[rows[k]][col]]

\* lo..hi is a run of missing values of s with a known value right before
\* it and a known value right after it.
InnerRun(s, lo, hi) ==
    /\ 1 < lo /\ lo <= hi /\ hi < Len(s)
    /\ \A i \in lo..hi : isna(s[i])
    /\ notna(s[lo - 1]) /\ notna(s[hi + 1])

\* The value linear interpolation gives the j-th point of a run of n
\* missing values between the known values a and b.
Linear(a, b, j, n) == a + (j * (b - a)) \div (n + 1)

\* C4 as stated: a run of 3 or more consecutive missing values of a pollutant
\* inside one city's series, between two known values, is left entirely
\* missing by fill_missing_values.
C4_LongGapLeftMissing ==
    fill_pc = "done" =>
        \A c \in FillCityNames :
            LET s == CitySeries(df_in, c, "pm25")
                r == CitySeries(df, c, "pm25")
            IN  \A lo, hi \in DOMAIN s :
                    (InnerRun(s, lo, hi) /\ hi - lo + 1 >= 3)
                        => \A i \in lo..hi : isna(r[i])

\* C4 amended: of a run of n >= 3 consecutive missing values between two
\* known values a and b, fill_missing_values fills the first two points
\* with a + j*(b-a)/(n+1), j = 1, 2, and leaves the points from the third on
\* missing.
C4_LongGapFirstTwoFilled ==
    fill_pc = "done" =>
        \A c \in FillCityNames :
            LET s == CitySeries(df_in, c, "pm25")
                r == CitySeries(df, c, "pm25")
            IN  \A lo, hi \in DOMAIN s :
                    (InnerRun(s, lo, hi) /\ hi - lo + 1 >= 3)
                        => \A i \in lo..hi :
                              r[i] = IF i - lo + 1 <= 2
                                     THEN Linear(s[lo - 1], s[hi + 1],
                                                 i - lo + 1, hi - lo + 1)
                                     ELSE NaN

\* A city's series holds a run of 3 missing values between two different
\* known values, and fill_missing_values has run.
C4_Witness ==
    /\ fill_pc = "done"
    /\ \E c \in FillCityNames :
          LET s == CitySeries(df_in, c, "pm25")
          IN  \E lo, hi \in DOMAIN s :
                 /\ InnerRun(s, lo, hi) /\ hi - lo + 1 >= 3
                 /\ s[lo - 1] # s[hi + 1]

\* C5: a run of n = 1 or 2 consecutive missing values of a pollutant between
\* two known values a and b of the same city is completely filled, the j-th
\* point with a + j*(b-a)/(n+1).
C5_ShortGapLinear ==
    fill_pc = "done" =>
        \A c \in FillCityNames :
            LET s == CitySeries(df_in, c, "pm25")
                r == CitySeries(df, c, "pm25")
            IN  \A lo, hi \in DOMAIN s :
                    (InnerRun(s, lo, hi) /\ hi - lo + 1 <= 2)
                        => \A i \in lo..hi :
                              /\ notna(r[i])
                              /\ r[i] = Linear(s[lo - 1], s[hi + 1],
                                               i - lo + 1, hi - lo + 1)

\* A city's series holds a run of exactly 2 missing values between two
\* different known values, rows of the other city lie inside the run, and
\* fill_missing_values has run.
C5_Witness ==
    /\ fill_pc = "done"
    /\ \E c \in FillCityNames :
          LET s    == CitySeries(df_in, c, "pm25")
              rows == CityRows(df_in, c)
          IN  \E lo \in DOMAIN s :
                 /\ lo + 1 \in DOMAIN s
                 /\ InnerRun(s, lo, lo + 1)
                 /\ s[lo - 1] # s[lo + 2]
                 /\ rows[lo + 1] > rows[lo] + 1

\* C6 as stated: a missing value with no known value of the city before it,
\* or none after it, is still missing after fill_missing_values.
C6_NoExtrapolation ==
    fill_pc = "done" =>
        \A c \in FillCityNames :
            LET s == CitySeries(df_in, c, "pm25")
                r == CitySeries(df, c, "pm25")
            IN  \A i \in DOMAIN s :
                    (/\ isna(s[i])
                     /\ \/ \A p \in 1..(i - 1) : isna(s[p])
                        \/ \A q \in (i + 1)..Len(s) : isna(s[q]))
                        => isna(r[i])

\* C6 amended: a missing value with no known value of the city before it
\* stays missing; a missing value with a known value before it and none
\* after it gets the last known value when it is the first or second
\* missing value after that known value, and stays missing otherwise.
C6_LeadingKeptTrailingFilled ==
    fill_pc = "done" =>
        \A c \in FillCityNames :
            LET s == CitySeries(df_in, c, "pm25")
                r == CitySeries(df, c, "pm25")
            IN  \A i \in DOMAIN s :
                    isna(s[i]) =>
                        /\ (\A p \in 1..(i - 1) : isna(s[p])) => isna(r[i])
                        /\ \A p \in 1..(i - 1) :
                              (/\ notna(s[p])
                               /\ \A q \in (p + 1)..Len(s) : isna(s[q]))
                                  => r[i] = IF i - p <= 2 THEN s[p] ELSE NaN

\* A city's series starts with a missing value and ends with a run of
\* missing values after its last known value, and fill_missing_values has
\* run.
C6_Witness ==
    /\ fill_pc = "done"
    /\ \E c \in FillCityNames :
          LET s == CitySeries(df_in, c, "pm25")
          IN  /\ Len(s) >= 4
              /\ isna(s[1]) /\ notna(s[2])
              /\ \A q \in 3..Len(s) : isna(s[q])

\* Table t without the rows of the cities other than city.
OnlyCity(t, city) == SelectSeq(t, LAMBDA row : row.city = city)

\* Table t with the PM2.5 of every row of a city other than city set to v.
OthersSetTo(t, city, v) ==
    [i \in DOMAIN t |-> IF t[i].city = city THEN t[i] ELSE [t[i] EXCEPT !.pm25 = v]]

\* C21: what fill_missing_values writes into the rows of a city depends only
\* on the known values of that city: the city's filled series is the same
\* when the rows of the other cities are removed, and when their values are
\* changed, wherever those rows lie.
C21_CityIsolation ==
    fill_pc = "done" =>
        \A c \in FillCityNames :
            LET r == CitySeries(df, c, "pm25")
            IN  /\ r = CitySeries(fill_missing_values(OnlyCity(df_in, c)), c, "pm25")
                /\ \A v \in FillValues :
                      r = CitySeries(fill_missing_values(OthersSetTo(df_in, c, v)),
                                     c, "pm25")

\* fill_missing_values has filled a missing value of a city in a row that
\* lies between two rows of the other city, whose known values both differ
\* from the value written.
C21_Witness ==
    /\ fill_pc = "done"
    /\ \E i \in DOMAIN df_in :
          /\ 1 < i /\ i < Len(df_in)
          /\ isna(df_in[i].pm25) /\ notna(df[i].pm25)
          /\ df_in[i - 1].city # df_in[i].city /\ df_in[i + 1].city # df_in[i].city
          /\ notna(df_in[i - 1].pm25) /\ df_in[i - 1].pm25 # df[i].pm25
          /\ notna(df_in[i + 1].pm25) /\ df_in[i + 1].pm25 # df[i].pm25

(***************************************************************************)
(* perform_clustering (clustering.py).                                     *)
(*                                                                         *)
(* The numeric cells of a city summary are integers in units of 1/Scale of *)
(* a tenth: One is the value 1.0.  A mean is kept exact, as the fraction   *)
(* num/den; the mean of no values (den = 0) is NaN.                        *)
(***************************************************************************)
One == 10 * Scale

feature_cols == <<"pm25", "green_space_pct", "population_density", "traffic_intensity">>

\* n_clusters=4, the default of perform_clustering
n_clusters == 4

\* Mutant of random_state: KMeans(random_state=None), which draws from
\* numpy's global random generator.
random_state_none == <<>>

\* random_state=42 of KMeans: <<seed>>, and <<>> stands for None
random_state == <<42>>

RECURSIVE SumSeq(_)
SumSeq(s) == IF s = <<>> THEN 0 ELSE s[1] + SumSeq(Tail(s))

\* Series.mean() of the values s (none of them missing).
mean(s) == [num |-> SumSeq(s), den |-> Len(s)]

MeanIsNaN(m) == m.den = 0

\* a < b on floats: false when either is NaN.
MeanLt(a, b) == ~MeanIsNaN(a) /\ ~MeanIsNaN(b) /\ a.num * b.den < b.num * a.den

\* mean m < c and m > c for a number c (in whole units): false when m is NaN.
MeanBelow(m, c) == ~MeanIsNaN(m) /\ m.num < c * One * m.den

MeanAbove(m, c) == ~MeanIsNaN(m) /\ m.num > c * One * m.den

(***************************************************************************)
(* sorted(items, key=...) for a list shorter than 64 items, as CPython     *)
(* sorts it: the leading run is found by count_run (ascending, or strictly *)
(* descending and then reversed), and every later item is put in place by  *)
(* binary insertion.  The only comparison used is key(x) < key(y).  The    *)
(* result is the list of the positions of the items in sorted order.       *)
(***************************************************************************)
\* count_run with a descending run that goes on over equal keys.
RECURSIVE count_run_ties_descend(_, _, _)
count_run_ties_descend(keys, i, descending) ==
    IF i > Len(keys) THEN i - 1
    ELSE IF (IF descending THEN ~MeanLt(keys[i - 1], keys[i])
                           ELSE ~MeanLt(keys[i], keys[i - 1]))
         THEN count_run_ties_descend(keys, i + 1, descending)
         ELSE i - 1

\* The last position of the run that starts at position 1 and goes on at i.
RECURSIVE count_run(_, _, _)
count_run(keys, i, descending) ==
    IF i > Len(keys) THEN i - 1
    ELSE IF MeanLt(keys[i], keys[i - 1]) = descending
         THEN count_run(keys, i + 1, descending)
         ELSE i - 1

Reverse(s) == [i \in DOMAIN s |-> s[Len(s) + 1 - i]]

\* Where binary insertion puts the item at position pivot among order[l..r-1].
RECURSIVE BinarySearch(_, _, _, _, _)
BinarySearch(keys, order, pivot, l, r) ==
    IF l >= r THEN l
    ELSE LET p == l + (r - l) \div 2
         IN  IF MeanLt(keys[pivot], keys[order[p]])
             THEN BinarySearch(keys, order, pivot, l, p)
             ELSE BinarySearch(keys, order, pivot, p + 1, r)

\* order with the item at position start moved to position pos <= start.
MoveTo(order, start, pos) ==
    [i \in DOMAIN order |->
        IF i < pos \/ i > start THEN order[i]
        ELSE IF i = pos THEN order[start]
        ELSE order[i - 1]]

RECURSIVE binarysort(_, _, _)
binarysort(keys, order, start) ==
    IF start > Len(order) THEN order
    ELSE binarysort(keys,
                    MoveTo(order, start,
                           BinarySearch(keys, order, order[start], 1, start)),
                    start + 1)

sorted(keys) ==
    LET n == Len(keys)
        identity == [i \in 1..n |-> i]
    IN  IF n < 2 THEN identity
        ELSE LET descending == MeanLt(keys[2], keys[1])
                 run == count_run(keys, 3, descending)
                 first == IF descending
                          THEN Reverse(SubSeq(identity, 1, run)) \o
                               SubSeq(identity, run + 1, n)
                          ELSE identity
             IN  binarysort(keys, first, run + 1)

(***************************************************************************)
(* The feature matrix and KMeans.                                          *)
(***************************************************************************)
\* X = df[feature_cols].values: one feature vector per row.
prepare_clustering_features(t) ==
    [i \in DOMAIN t |-> [k \in DOMAIN feature_cols |-> t[i][feature_cols[k]]]]

HasNaN(X) == \E i \in DOMAIN X : \E k \in DOMAIN X[i] : isna(X[i][k])

(***************************************************************************)
(* KMeans(n_clusters=k, ...).fit_predict(X), as far as the program depends *)
(* on it: a fit is [error, labels].  It raises ValueError (error = TRUE)   *)
(* for a matrix that holds NaN or has fewer than k rows.  Otherwise it     *)
(* returns one label in 0..k-1 per row; equal                              *)
(* rows get equal labels; when X has at least k different rows every label *)
(* is used, and when it has fewer, different rows get different labels and *)
(* the other labels are used by no row (scikit-learn then warns "Number of *)
(* distinct clusters found smaller than n_clusters").  Which of these      *)
(* labellings it returns is left open here: the numbering of the raw       *)
(* labels is arbitrary.                                                    *)
(***************************************************************************)
\* Mutant of KMeansLabellings: fewer rows than clusters are not rejected,
\* every row becomes a cluster of its own.
KMeansLabellings_degrade(X, k) ==
    IF HasNaN(X) THEN {[error |-> TRUE, labels |-> <<>>]}
    ELSE LET rows == Range(X)
         IN  {[error |-> FALSE, labels |-> l] : l \in
              {l \in [DOMAIN X -> 0..(k - 1)] :
                /\ \A i, j \in DOMAIN X : X[i] = X[j] => l[i] = l[j]
                /\ IF Cardinality(rows) >= k
                   THEN \A c \in 0..(k - 1) : \E i \in DOMAIN X : l[i] = c
                   ELSE \A i, j \in DOMAIN X : l[i] = l[j] => X[i] = X[j]}}

KMeansLabellings(X, k) ==
    IF HasNaN(X) \/ Len(X) < k THEN {[error |-> TRUE, labels |-> <<>>]}
    ELSE LET rows == Range(X)
         IN  {[error |-> FALSE, labels |-> l] : l \in
              {l \in [DOMAIN X -> 0..(k - 1)] :
                /\ \A i, j \in DOMAIN X : X[i] = X[j] => l[i] = l[j]
                /\ IF Cardinality(rows) >= k
                   THEN \A c \in 0..(k - 1) : \E i \in DOMAIN X : l[i] = c
                   ELSE \A i, j \in DOMAIN X : l[i] = l[j] => X[i] = X[j]}}

\* The random state a KMeans built with random_state=rs starts from: a
\* generator of its own seeded with rs, or numpy's global generator in the
\* state g it is in.
RandomStateKey(rs, g) == IF rs = <<>> THEN <<"global", g>> ELSE <<"seed", rs[1]>>

\* numpy's global generator after a fit: it has moved on when the fit drew
\* from it.
AfterFit(rs, g) == IF rs = <<>> THEN g + 1 ELSE g

(***************************************************************************)
(* Cluster characterization, canonical order and relabelling.              *)
(***************************************************************************)
\* Mutant of ClusterRows: the mask is df_clustered['cluster'] <= i.
ClusterRows_upto(t, labels, i) ==
    SelectSeq([r \in DOMAIN t |-> r], LAMBDA r : labels[r] <= i)

\* The rows of the table whose raw label is i, in row order.
ClusterRows(t, labels, i) ==
    SelectSeq([r \in DOMAIN t |-> r], LAMBDA r : labels[r] = i)

Column(t, rows, col) == [k \in DOMAIN rows |-> t[rows[k]][col]]

\* The name rules with the density rule before the pollution rule.
ClusterName_density_first(info) ==
    IF MeanBelow(info.avg_pm25, 15) /\ MeanAbove(info.avg_green_space, 40)
    THEN "Clean & Green"
    ELSE IF MeanAbove(info.avg_density, 8000) THEN "High Density Urban"
    ELSE IF MeanAbove(info.avg_pm25, 40) THEN "Industrial/Polluted"
    ELSE "Moderate Urban"

\* The name rules, first match wins.
ClusterName(info) ==
    IF MeanBelow(info.avg_pm25, 15) /\ MeanAbove(info.avg_green_space, 40)
    THEN "Clean & Green"
    ELSE IF MeanAbove(info.avg_pm25, 40) THEN "Industrial/Polluted"
    ELSE IF MeanAbove(info.avg_density, 8000) THEN "High Density Urban"
    ELSE "Moderate Urban"

ClusterDescription(name) ==
    CASE name = "Clean & Green" -> "Low pollution, high green space"
      [] name = "Industrial/Polluted" -> "High pollution levels"
      [] name = "High Density Urban" -> "Dense urban areas"
      [] OTHER -> "Balanced environmental profile"

\* The info dict of raw cluster i (its "center" is left out: nothing in the
\* program reads it back).
ClusterInfo(t, labels, i) ==
    LET rows == ClusterRows(t, labels, i)
        info == [cluster_id       |-> i,
                 n_cities         |-> Len(rows),
                 cities           |-> Column(t, rows, "city"),
                 avg_pm25         |-> mean(Column(t, rows, "pm25")),
                 avg_green_space  |-> mean(Column(t, rows, "green_space_pct")),
                 avg_density      |-> mean(Column(t, rows, "population_density")),
                 avg_traffic      |-> mean(Column(t, rows, "traffic_intensity"))]
        name == ClusterName(info)
    IN  [cluster_id       |-> info.cluster_id,
         n_cities         |-> info.n_cities,
         cities           |-> info.cities,
         avg_pm25         |-> info.avg_pm25,
         avg_green_space  |-> info.avg_green_space,
         avg_density      |-> info.avg_density,
         avg_traffic      |-> info.avg_traffic,
         name             |-> name,
         description      |-> ClusterDescription(name)]

\* cluster_info before sorting: entry i + 1 describes raw cluster i.
RawClusterInfo(t, labels, k) == [i \in 1..k |-> ClusterInfo(t, labels, i - 1)]

\* Mutant of old_to_new: the dict is built the other way round, from the
\* position in the sorted list to the raw ID found there.
old_to_new_by_position(order) ==
    [old \in {order[i] - 1 : i \in DOMAIN order} |-> order[old + 1] - 1]

\* old_to_new = {info['cluster_id']: i for i, info in enumerate(cluster_info)}
\* for the sorted list given as the order of the raw entries.
old_to_new(order) ==
    [old \in {order[i] - 1 : i \in DOMAIN order} |->
        (CHOOSE i \in DOMAIN order : order[i] - 1 = old) - 1]

\* The 2D projection of row r: PCA is not computed here, the coordinate is
\* named by the component and the row it belongs to.
pca_coordinate(component, r) == <<component, r>>

(***************************************************************************)
(* perform_clustering(df, n_clusters) once KMeans has answered with `fit`. *)
(* StandardScaler rejects a table without rows before KMeans is reached.   *)
(* The result is what the call returns (status "ok": df_clustered and      *)
(* cluster_info) or the exception it raises.                               *)
(***************************************************************************)
perform_clustering(t, k, fit) ==
    IF Len(t) = 0 \/ fit.error
    THEN [status |-> "ValueError", df_clustered |-> <<>>, cluster_info |-> <<>>]
    ELSE LET labels == fit.labels
             raw_info == RawClusterInfo(t, labels, k)
             order == sorted([i \in 1..k |-> raw_info[i].avg_pm25])
             remap == old_to_new(order)
         IN  [status |-> "ok",
              df_clustered |->
                  [r \in DOMAIN t |->
                      [cluster |-> remap[labels[r]],
                       pca_1   |-> pca_coordinate(1, r),
                       pca_2   |-> pca_coordinate(2, r)] @@ t[r]],
              cluster_info |->
                  [i \in 1..k |-> [raw_info[order[i]] EXCEPT !.cluster_id = i - 1]]]

(***************************************************************************)
(* Specification SpecCluster: perform_clustering called up to MaxCalls     *)
(* times on one city summary table of up to MaxCities cities.  Every city  *)
(* has one row; its features are one of the profiles below.  The rows are  *)
(* listed by profile: KMeans' answer does not depend on the row order.     *)
(***************************************************************************)
CityNames == <<"Vienna", "Oslo", "Lima", "Cairo", "Delhi", "Dhaka", "Lagos">>

Profiles ==
    << [pm25 |-> 10 * One, green_space_pct |-> 50 * One,
        population_density |-> 3000 * One, traffic_intensity |-> 4000 * One],
       [pm25 |-> 10 * One, green_space_pct |-> 30 * One,
        population_density |-> 9000 * One, traffic_intensity |-> 6000 * One],
       [pm25 |-> 25 * One, green_space_pct |-> 30 * One,
        population_density |-> 3000 * One, traffic_intensity |-> 5000 * One],
       [pm25 |-> 45 * One, green_space_pct |-> 20 * One,
        population_density |-> 9000 * One, traffic_intensity |-> 8000 * One],
       [pm25 |-> 60 * One, green_space_pct |-> 45 * One,
        population_density |-> 3000 * One, traffic_intensity |-> 9000 * One],
       [pm25 |-> 20 * One, green_space_pct |-> 30 * One,
        population_density |-> NaN, traffic_intensity |-> 5000 * One] >>

SummaryRow(i, p) == [city |-> CityNames[i]] @@ Profiles[p]

ClusterTables ==
    UNION {{[i \in 1..n |-> SummaryRow(i, ps[i])] :
              ps \in {q \in [1..n -> DOMAIN Profiles] :
                         \A i \in 1..(n - 1) : q[i] <= q[i + 1]}} :
           n \in 0..MaxCities}

NoResult == [status |-> "none", df_clustered |-> <<>>, cluster_info |-> <<>>]

InitCluster ==
    /\ city_df \in ClusterTables
    /\ np_random = 0
    /\ kmeans_fits = <<>>
    /\ n_calls = 0
    /\ first_result = NoResult
    /\ result = NoResult
    /\ FillIdle
    /\ MainIdle
    /\ AqiIdle
    /\ ToolsIdle

\* One call perform_clustering(city_df).  KMeans is deterministic in its
\* random state and its input: a fit from a random state it has started from
\* before gives the same labelling again (kmeans_fits).
PerformClustering ==
    /\ n_calls < MaxCalls
    /\ LET X   == prepare_clustering_features(city_df)
           key == RandomStateKey(random_state, np_random)
       IN  \E fit \in IF key \in DOMAIN kmeans_fits
                      THEN {kmeans_fits[key]}
                      ELSE KMeansLabellings(X, n_clusters) :
              /\ kmeans_fits' = IF key \in DOMAIN kmeans_fits
                                THEN kmeans_fits
                                ELSE (key :> fit) @@ kmeans_fits
              /\ result' = perform_clustering(city_df, n_clusters, fit)
    /\ np_random' = AfterFit(random_state, np_random)
    /\ first_result' = IF n_calls = 0 THEN result' ELSE first_result
    /\ n_calls' = n_calls + 1
    /\ UNCHANGED <<city_df, fillVars, mainVars, aqiVars, toolVars>>

NextCluster == PerformClustering

SpecCluster == InitCluster /\ [][NextCluster]_vars

(***************************************************************************)
(* Claims about perform_clustering (checked under SpecCluster).            *)
(***************************************************************************)
final_ids == 0..(n_clusters - 1)

\* The PM2.5 values of the rows of the clustered table t whose final cluster
\* ID is c, in row order.
FinalPm25(t, c) ==
    LET rows == SelectSeq([r \in DOMAIN t |-> r], LAMBDA r : t[r].cluster = c)
    IN  [k \in DOMAIN rows |-> t[rows[k]].pm25]

\* C1: after perform_clustering, for final cluster IDs i < j that both have
\* cities, the mean PM2.5 of the cities with final ID i is at most the mean
\* PM2.5 of the cities with final ID j.
C1_CanonicalOrdering ==
    result.status = "ok" =>
        \A i, j \in final_ids :
            (/\ i < j
             /\ FinalPm25(result.df_clustered, i) # <<>>
             /\ FinalPm25(result.df_clustered, j) # <<>>)
                => ~MeanLt(mean(FinalPm25(result.df_clustered, j)),
                           mean(FinalPm25(result.df_clustered, i)))

\* The ordering of C1 where every final cluster has a city: it holds there.
C1_OrderedWhenNoClusterEmpty ==
    (/\ result.status = "ok"
     /\ \A c \in final_ids : FinalPm25(result.df_clustered, c) # <<>>)
        => C1_CanonicalOrdering

\* C2: after perform_clustering with K = 4 every row of the summary is a row
\* of the clustered table with one final cluster ID in 0..3, cluster_info
\* has four entries, and their member lists are duplicate-free, pairwise
\* disjoint, and together hold exactly the cities of the input.
C2_ClusterCount ==
    result.status = "ok" =>
        LET t    == result.df_clustered
            info == result.cluster_info
        IN  /\ Len(t) = Len(city_df)
            /\ \A r \in DOMAIN t :
                  t[r].city = city_df[r].city /\ t[r].cluster \in 0..3
            /\ Len(info) = 4
            /\ \A i \in DOMAIN info :
                  Cardinality(Range(info[i].cities)) = Len(info[i].cities)
            /\ \A i, j \in DOMAIN info :
                  i # j => Range(info[i].cities) \cap Range(info[j].cities) = {}
            /\ UNION {Range(info[i].cities) : i \in DOMAIN info}
                  = {city_df[r].city : r \in DOMAIN city_df}

\* perform_clustering has returned for 5 cities, and one cluster holds two
\* of them.
C2_Witness ==
    /\ result.status = "ok"
    /\ Len(city_df) = 5
    /\ \E i \in DOMAIN result.cluster_info : result.cluster_info[i].n_cities = 2

\* C3: a second run of perform_clustering on the same summary ends as the
\* first did, with the same final cluster ID for every city.
C3_Reproducible ==
    n_calls >= 2 =>
        /\ result.status = first_result.status
        /\ Len(result.df_clustered) = Len(first_result.df_clustered)
        /\ \A r \in DOMAIN result.df_clustered :
              /\ result.df_clustered[r].city = first_result.df_clustered[r].city
              /\ result.df_clustered[r].cluster = first_result.df_clustered[r].cluster

\* perform_clustering has run twice on five cities with five different
\* feature vectors (KMeans had more than one labelling to choose from).
C3_Witness ==
    /\ n_calls = 2
    /\ result.status = "ok"
    /\ Cardinality(Range(prepare_clustering_features(city_df))) = 5

\* C9: perform_clustering with K = 4 on a summary of fewer than 4 cities
\* raises an error and returns no cluster assignment.
C9_TooFewCitiesRejected ==
    (n_calls >= 1 /\ Len(city_df) < 4) =>
        /\ result.status = "ValueError"
        /\ result.df_clustered = <<>>
        /\ result.cluster_info = <<>>

\* perform_clustering has been called on 3 cities without a missing feature.
C9_Witness ==
    /\ n_calls >= 1
    /\ Len(city_df) = 3
    /\ ~HasNaN(prepare_clustering_features(city_df))

\* The values of column col of the rows of the clustered table t whose final
\* cluster ID is c, in row order.
FinalColumn(t, c, col) ==
    LET rows == SelectSeq([r \in DOMAIN t |-> r], LAMBDA r : t[r].cluster = c)
    IN  [k \in DOMAIN rows |-> t[rows[k]][col]]

\* The name the four rules give a cluster of n cities whose PM2.5, green
\* space and density sum up to pm, green and dens.
RuleName(n, pm, green, dens) ==
    IF n > 0 /\ pm < 15 * One * n /\ green > 40 * One * n THEN "Clean & Green"
    ELSE IF n > 0 /\ pm > 40 * One * n THEN "Industrial/Polluted"
    ELSE IF n > 0 /\ dens > 8000 * One * n THEN "High Density Urban"
    ELSE "Moderate Urban"

\* C14: the name of every cluster is the one the first matching rule gives
\* for the means of its cities: (1) PM2.5 < 15 and green space > 40 ->
\* 'Clean & Green', (2) PM2.5 > 40 -> 'Industrial/Polluted', (3) density >
\* 8000 -> 'High Density Urban', (4) otherwise 'Moderate Urban'; a cluster
\* with mean PM2.5 > 40 is 'Industrial/Polluted' whatever else it has.
C14_ClusterNames ==
    result.status = "ok" =>
        \A i \in DOMAIN result.cluster_info :
            LET info == result.cluster_info[i]
                t    == result.df_clustered
                pm   == FinalColumn(t, info.cluster_id, "pm25")
                n    == Len(pm)
            IN  /\ info.name =
                      RuleName(n, SumSeq(pm),
                               SumSeq(FinalColumn(t, info.cluster_id, "green_space_pct")),
                               SumSeq(FinalColumn(t, info.cluster_id, "population_density")))
                /\ (n > 0 /\ SumSeq(pm) > 40 * One * n)
                      => info.name = "Industrial/Polluted"

\* perform_clustering has named a cluster with mean PM2.5 above 40 and mean
\* density above 8000, and clusters of the three other names.
C14_Witness ==
    /\ result.status = "ok"
    /\ \E i \in DOMAIN result.cluster_info :
          /\ result.cluster_info[i].name = "Industrial/Polluted"
          /\ MeanAbove(result.cluster_info[i].avg_density, 8000)
    /\ {"Clean & Green", "High Density Urban", "Moderate Urban"} \subseteq
          {result.cluster_info[i].name : i \in DOMAIN result.cluster_info}

\* The raw labels KMeans gave in the latest call.
RawLabels == kmeans_fits[RandomStateKey(random_state, np_random)].labels

\* The mean PM2.5 of the cities with raw label i.
RawPm25(i) == mean(Column(city_df, ClusterRows(city_df, RawLabels, i), "pm25"))

\* Raw clusters i and j have cities and exactly the same mean PM2.5.
EqualMeans(i, j) ==
    /\ ~MeanIsNaN(RawPm25(i)) /\ ~MeanIsNaN(RawPm25(j))
    /\ RawPm25(i).num * RawPm25(j).den = RawPm25(j).num * RawPm25(i).den

\* The final ID of the cities with raw label i.
FinalOf(i) ==
    LET r == CHOOSE q \in DOMAIN city_df : RawLabels[q] = i
    IN  result.df_clustered[r].cluster

\* C15: of two raw clusters with exactly equal mean PM2.5, the one with the
\* smaller raw ID gets the smaller final ID.
C15_TiesByRawId ==
    result.status = "ok" =>
        \A i, j \in final_ids :
            (i < j /\ EqualMeans(i, j)) => FinalOf(i) < FinalOf(j)

\* perform_clustering has relabelled raw clusters 1 and 2 of equal mean
\* PM2.5 that came after a raw cluster 0 of a higher mean.
C15_Witness ==
    /\ result.status = "ok"
    /\ EqualMeans(1, 2)
    /\ MeanLt(RawPm25(1), RawPm25(0))

\* C26: the relabelling is a bijection from the raw cluster IDs onto
\* 0..K-1: two cities share a final ID iff they shared a raw ID, and for
\* every final ID i the entry cluster_info[i] has cluster_id = i and holds
\* exactly the member cities, the mean PM2.5 and the name of the rows whose
\* final ID is i, so that cluster_info[vienna_cluster] describes the cluster
\* Vienna is in.
C26_RelabelBijection ==
    result.status = "ok" =>
        LET t    == result.df_clustered
            info == result.cluster_info
        IN  /\ \A r \in DOMAIN t : t[r].cluster \in final_ids
            /\ \A r1, r2 \in DOMAIN t :
                  (t[r1].cluster = t[r2].cluster) <=> (RawLabels[r1] = RawLabels[r2])
            /\ DOMAIN info = 1..n_clusters
            /\ \A i \in final_ids :
                  LET pm == FinalColumn(t, i, "pm25")
                  IN  /\ info[i + 1].cluster_id = i
                      /\ info[i + 1].cities = FinalColumn(t, i, "city")
                      /\ info[i + 1].n_cities = Len(pm)
                      /\ info[i + 1].avg_pm25 = mean(pm)
                      /\ info[i + 1].name =
                            RuleName(Len(pm), SumSeq(pm),
                                     SumSeq(FinalColumn(t, i, "green_space_pct")),
                                     SumSeq(FinalColumn(t, i, "population_density")))
            /\ \A r \in DOMAIN t :
                  t[r].city = "Vienna" =>
                      "Vienna" \in Range(info[t[r].cluster + 1].cities)

\* perform_clustering has relabelled four clusters with cities, Vienna among
\* them, and the relabelling moves three raw IDs round in a circle: raw 0 to
\* final 1, raw 1 to final 2, raw 2 to final 0.
C26_Witness ==
    /\ result.status = "ok"
    /\ \E r \in DOMAIN city_df : city_df[r].city = "Vienna"
    /\ \A i \in final_ids : \E r \in DOMAIN city_df : RawLabels[r] = i
    /\ FinalOf(0) = 1 /\ FinalOf(1) = 2 /\ FinalOf(2) = 0

(***************************************************************************)
(* compute_aqi (process_data.py).  Concentrations and indices are in the   *)
(* units of the tables: Scale units are 0.1, One is 1.0.                   *)
(***************************************************************************)
\* num/den rounded to the nearest integer, a tie to the even one (Python's
\* round and numpy's), for num >= 0 and den > 0.
RoundHalfEven(num, den) ==
    LET q == num \div den
        r == num % den
    IN  IF 2 * r < den THEN q
        ELSE IF 2 * r > den THEN q + 1
        ELSE IF q % 2 = 0 THEN q ELSE q + 1

\* (bp_lo, bp_hi, aqi_lo, aqi_hi), the concentrations in tenths.
breakpoints ==
    << <<0, 120, 0, 50>>,
       <<121, 354, 51, 100>>,
       <<355, 554, 101, 150>>,
       <<555, 1504, 151, 200>>,
       <<1505, 2504, 201, 300>>,
       <<2505, 5004, 301, 500>> >>

\* The range test with the upper bound left out.
InBreakpoint_half_open(x, bp) == bp[1] * Scale <= x /\ x < bp[2] * Scale

\* bp_lo <= pm25 <= bp_hi
InBreakpoint(x, bp) == bp[1] * Scale <= x /\ x <= bp[2] * Scale

\* The concentrations whose index is a tie in exact arithmetic and comes out
\* of the floating-point expression above the tie: (50 / 12) * 5.4 evaluates
\* to 22.500000000000004, which round() takes to 23.
FloatAboveTie == {54 * Scale}

compute_aqi(x) ==
    IF isna(x) THEN NaN
    ELSE LET hits == {k \in DOMAIN breakpoints : InBreakpoint(x, breakpoints[k])}
         IN  IF hits # {}
             THEN LET k  == CHOOSE h \in hits : \A g \in hits : h <= g
                      bp == breakpoints[k]
                      den == (bp[2] - bp[1]) * Scale
                      num == (bp[4] - bp[3]) * (x - bp[1] * Scale) + bp[3] * den
                  IN  IF x \in FloatAboveTie THEN One * (num \div den + 1)
                      ELSE One * RoundHalfEven(num, den)
             ELSE IF x > 5004 * Scale THEN 500 * One
             ELSE NaN

(***************************************************************************)
(* Specification SpecAqi: compute_aqi called on two concentrations         *)
(* pm25_a <= pm25_b, both missing or both on the grid of 0.05 from 0 to    *)
(* MaxTenths / 10, at most MaxStep grid steps apart.                       *)
(***************************************************************************)
\* The largest concentration, in tenths (above the top breakpoint 500.4).
MaxTenths == 5010

\* The largest distance of the two concentrations, in steps of 0.05.
MaxStep == 3

HalfTenth == Scale \div 2

InitAqi ==
    /\ \/ pm25_a = NaN /\ pm25_b = NaN
       \/ \E h \in 0..(2 * MaxTenths), d \in 0..MaxStep :
             /\ pm25_a = h * HalfTenth
             /\ pm25_b = (h + d) * HalfTenth
    /\ aqi_a = NaN /\ aqi_b = NaN
    /\ aqi_pc = "call"
    /\ FillIdle
    /\ ClusterIdle
    /\ MainIdle
    /\ ToolsIdle

ComputeAqi ==
    /\ aqi_pc = "call"
    /\ aqi_a' = compute_aqi(pm25_a)
    /\ aqi_b' = compute_aqi(pm25_b)
    /\ aqi_pc' = "done"
    /\ UNCHANGED <<pm25_a, pm25_b, fillVars, clusterVars, mainVars,
                 toolVars>>

NextAqi == ComputeAqi

SpecAqi == InitAqi /\ [][NextAqi]_vars

\* x <= y as Python evaluates it: False when one of them is NaN.
Le(x, y) == notna(x) /\ notna(y) /\ x <= y

\* C11: compute_aqi is monotone: for any two non-missing PM2.5 values
\* a < b, AQI(a) <= AQI(b).
C11_Monotone ==
    (aqi_pc = "done" /\ notna(pm25_a) /\ pm25_a < pm25_b) => Le(aqi_a, aqi_b)

\* C11, as far as it holds: for a < b for which compute_aqi returns an
\* index, AQI(a) <= AQI(b).
C11_MonotoneWhereDefined ==
    (aqi_pc = "done" /\ pm25_a < pm25_b /\ notna(aqi_a) /\ notna(aqi_b))
        => aqi_a <= aqi_b

\* C12: for every non-missing concentration v >= 0, at any resolution and
\* above the highest breakpoint too, compute_aqi returns an integer index
\* in 0..500; it returns NaN only for a missing input.
C12_DefinedIndex ==
    (aqi_pc = "done" /\ notna(pm25_a)) =>
        /\ notna(aqi_a)
        /\ \E i \in 0..500 : aqi_a = i * One

\* C13: compute_aqi is exact on the range boundaries: the lower bound of
\* every breakpoint range gives the lowest index of the range, the upper
\* bound the highest, and a boundary value is in exactly one range.
C13_BoundaryExact ==
    aqi_pc = "done" =>
        \A k \in DOMAIN breakpoints :
            LET bp == breakpoints[k]
            IN  /\ pm25_a = bp[1] * Scale => aqi_a = bp[3] * One
                /\ pm25_a = bp[2] * Scale => aqi_a = bp[4] * One
                /\ pm25_a \in {bp[1] * Scale, bp[2] * Scale} =>
                      Cardinality({j \in DOMAIN breakpoints :
                                      InBreakpoint(pm25_a, breakpoints[j])}) = 1

\* compute_aqi has returned 50 for 12.0 and 51 for 12.1.
C13_Witness ==
    /\ aqi_pc = "done"
    /\ pm25_a = 120 * Scale /\ aqi_a = 50 * One
    /\ pm25_b = 121 * Scale /\ aqi_b = 51 * One

(***************************************************************************)
(* Tables: columns, and the aggregates of a column.                        *)
(***************************************************************************)
\* df.columns of a table with at least one row.
Columns(t) == IF t = <<>> THEN {} ELSE DOMAIN t[1]

\* The known values of column col of table t, as a list in row order.
Known(t, col) ==
    LET rows == SelectSeq([r \in DOMAIN t |-> r], LAMBDA r : notna(t[r][col]))
    IN  [k \in DOMAIN rows |-> t[rows[k]][col]]

\* Series.median() of the values s (none missing; NaN when there is none):
\* the middle value in sorted order, or the mean of the two middle values.
median(s) ==
    IF s = <<>> THEN NaN
    ELSE LET o == SortSeq(s, LAMBDA a, b : a < b)
             n == Len(o)
         IN  IF n % 2 = 1 THEN o[(n + 1) \div 2]
             ELSE (o[n \div 2] + o[n \div 2 + 1]) \div 2

\* Series.fillna(v)
fillna(t, col, v) ==
    [r \in DOMAIN t |-> IF isna(t[r][col]) THEN [t[r] EXCEPT ![col] = v] ELSE t[r]]

\* Series.round(d) of a value, to a multiple of unit (Scale: one decimal
\* place, One: no decimal place); NaN stays NaN.
round(x, unit) == IF isna(x) THEN NaN ELSE unit * RoundHalfEven(x, unit)

\* The mean of the known values s rounded to a multiple of unit; NaN when
\* there is none.
RoundedMean(s, unit) ==
    IF s = <<>> THEN NaN ELSE unit * RoundHalfEven(SumSeq(s), Len(s) * unit)

(***************************************************************************)
(* The steps of main (process_data.py).  Of the metadata columns (country, *)
(* region, lat, lon) the tables here carry region, and month stands for    *)
(* the columns year, month and date.                                       *)
(***************************************************************************)
supp_cols == <<"population", "population_density", "green_space_pct",
               "traffic_congestion_pct">>

\* The static columns of supp_df that merge_data takes along.
SuppColsOf(supp) == {c \in Range(supp_cols) : c \in Columns(supp)}

\* The rows an inner join gives for the row r of the left table.
JoinRow_inner(r, supp) ==
    LET hits == SelectSeq(supp, LAMBDA x : x.city = r.city)
        cols == SuppColsOf(supp)
    IN  [k \in DOMAIN hits |-> [c \in cols |-> hits[k][c]] @@ r]

\* The rows a left join gives for the row r of the left table.
JoinRow(r, supp) ==
    LET hits == SelectSeq(supp, LAMBDA x : x.city = r.city)
        cols == SuppColsOf(supp)
    IN  IF hits = <<>> THEN << [c \in cols |-> NaN] @@ r >>
        ELSE [k \in DOMAIN hits |-> [c \in cols |-> hits[k][c]] @@ r]

RECURSIVE LeftJoin(_, _)
LeftJoin(aq, supp) ==
    IF aq = <<>> THEN <<>> ELSE JoinRow(Head(aq), supp) \o LeftJoin(Tail(aq), supp)

merge_data(aq, supp) ==
    IF aq = <<>> THEN <<>>
    ELSE IF supp = <<>> THEN aq
    ELSE LeftJoin(aq, supp)

\* row.get(col)
Get(row, col) == IF col \in DOMAIN row THEN row[col] ELSE NaN

compute_derived_metrics(t) ==
    LET with_aqi == [r \in DOMAIN t |->
                        [air_quality_index |-> compute_aqi(Get(t[r], "pm25"))] @@ t[r]]
    IN  IF "traffic_congestion_pct" \in Columns(t)
        THEN LET scaled == [r \in DOMAIN t |->
                               [traffic_intensity |->
                                    IF isna(t[r].traffic_congestion_pct) THEN NaN
                                    ELSE t[r].traffic_congestion_pct * 200]
                               @@ with_aqi[r]]
                 m == median(Known(scaled, "traffic_intensity"))
             IN  IF isna(m) THEN scaled ELSE fillna(scaled, "traffic_intensity", m)
        ELSE with_aqi

required_cols == <<"city", "region", "population", "population_density",
                   "green_space_pct", "traffic_intensity", "pm25", "pm10",
                   "no2", "o3", "air_quality_index", "month">>

\* for col in required_cols: if col not in df.columns: df[col] = np.nan
WithRequiredCols(t) ==
    [r \in DOMAIN t |->
        t[r] @@ [c \in Range(required_cols) \ DOMAIN t[r] |-> NaN]]

\* The position of a city in the order of the city names.
CityOrder(city) == CHOOSE i \in DOMAIN PipeCities : PipeCities[i] = city

\* The unit a column of the timeseries table is rounded to (0: not rounded).
TimeseriesUnit(col) ==
    IF col \in {"pm25", "pm10", "no2", "o3", "air_quality_index", "green_space_pct"}
    THEN Scale
    ELSE IF col \in {"population_density", "traffic_intensity"} THEN One
    ELSE 0

\* output_df of generate_timeseries_csv: the required columns, rounded,
\* sorted by city and date.
generate_timeseries_csv(t) ==
    LET full == WithRequiredCols(t)
        out  == [r \in DOMAIN full |->
                    [c \in Range(required_cols) |->
                        IF TimeseriesUnit(c) = 0 THEN full[r][c]
                        ELSE round(full[r][c], TimeseriesUnit(c))]]
    IN  SortSeq(out, LAMBDA a, b :
                   \/ CityOrder(a.city) < CityOrder(b.city)
                   \/ a.city = b.city /\ a.month < b.month)

(***************************************************************************)
(* generate_summary_csv: one row per group of equal city metadata, the     *)
(* pollutant means rounded, and the missing values of every numeric column *)
(* filled with the column's median when it has one.                        *)
(***************************************************************************)
groupby_cols == <<"city", "region", "population", "population_density",
                  "green_space_pct", "traffic_intensity">>

agg_cols == <<"pm25", "pm10", "no2", "o3", "air_quality_index">>

\* The list of the columns to fill without the static ones.
numeric_cols_pollutants_only == <<"pm25", "pm10", "no2", "o3", "air_quality_index">>

numeric_cols == <<"pm25", "pm10", "no2", "o3", "air_quality_index",
                  "population_density", "green_space_pct", "traffic_intensity">>

\* The columns that are of dtype Int64 in the summary.
Int64Cols == {"air_quality_index", "traffic_intensity"}

GroupKey(row) == [c \in Range(groupby_cols) |-> row[c]]

\* Two cells of a key column in sorted order: a missing value comes last.
CellBefore(x, y) == IF isna(x) THEN FALSE ELSE (isna(y) \/ x < y)

\* The order groupby puts the group keys in: by city, then by the numeric
\* key columns.
RECURSIVE KeyBefore(_, _, _)
KeyBefore(a, b, k) ==
    IF k > Len(groupby_cols) THEN FALSE
    ELSE LET c == groupby_cols[k]
         IN  IF c = "city"
             THEN \/ CityOrder(a.city) < CityOrder(b.city)
                  \/ a.city = b.city /\ KeyBefore(a, b, k + 1)
             ELSE IF c = "region" \/ a[c] = b[c] THEN KeyBefore(a, b, k + 1)
             ELSE CellBefore(a[c], b[c])

\* The set S of group keys as a list in that order.
RECURSIVE SortedKeys(_)
SortedKeys(S) ==
    IF S = {} THEN <<>>
    ELSE LET x == CHOOSE y \in S : \A z \in S \ {y} : KeyBefore(y, z, 1)
         IN  <<x>> \o SortedKeys(S \ {x})

\* The unit the mean of an aggregated column is rounded to.
SummaryUnit(col) == IF col = "air_quality_index" THEN One ELSE Scale

\* summary before the medians are filled in.
GroupedSummary(ts) ==
    LET keys == SortedKeys({GroupKey(ts[r]) : r \in DOMAIN ts})
    IN  [g \in DOMAIN keys |->
            LET rows == SelectSeq(ts, LAMBDA row : GroupKey(row) = keys[g])
            IN  [c \in Range(agg_cols) |->
                    RoundedMean(Known(rows, c), SummaryUnit(c))] @@ keys[g]]

\* The median a column is filled with: int(round(median)) for an Int64
\* column.
FillValue(t, col) ==
    LET m == median(Known(t, col))
    IN  IF isna(m) THEN NaN
        ELSE IF col \in Int64Cols THEN One * RoundHalfEven(m, One)
        ELSE m

\* The loop over the columns cols[k..] that fills in the medians.
RECURSIVE FillMedians(_, _, _)
FillMedians(t, cols, k) ==
    IF k > Len(cols) THEN t
    ELSE LET col == cols[k]
             v   == FillValue(t, col)
         IN  IF col \in Columns(t) /\ notna(v)
             THEN FillMedians(fillna(t, col, v), cols, k + 1)
             ELSE FillMedians(t, cols, k + 1)

generate_summary_csv(ts) == FillMedians(GroupedSummary(ts), numeric_cols, 1)

\* The warnings of the final data quality check: the numeric columns that
\* still have missing values.
StillNaN(t) ==
    {<<"still has NaN values", c>> :
        c \in {c \in Range(numeric_cols) :
                  c \in Columns(t) /\ \E r \in DOMAIN t : isna(t[r][c])}}

(***************************************************************************)
(* Specification SpecMain: one run of main() on the tables the two loaders *)
(* return.                                                                 *)
(*                                                                         *)
(* The monthly table holds n <= MaxPipeCities cities with m <= MaxMonths   *)
(* months each, month by month.  The first `missing` cities have no PM2.5  *)
(* value at all; the others have one per month, or, with `gap`, none in    *)
(* month 2.  The static table is absent, complete, without the first city  *)
(* and with a city that has no monthly data, without a green-space value,  *)
(* or with a second, different row for the first city.                     *)
(***************************************************************************)
\* PM2.5 of the cities in month 1, in tenths; month k adds the city's step
\* (k - 1) \div 2 times.
BasePm25 == <<80, 121, 300, 450, 100, 600>>

PmStep == <<2, -1, 2, 2, 2, 2>>

BaseRegion == <<"Africa", "Asia", "Americas", "Europe", "Europe", "Europe">>

\* Population (thousands), density and green space (whole units),
\* congestion (percent).
BasePopulation == <<9500, 16000, 9700, 700, 1900, 800>>

BaseDensity == <<3000, 9000, 3000, 9000, 5000, 7000>>

BaseGreen == <<50, 30, 45, 20, 35, 25>>

BaseCongestion == <<20, 30, 25, 40, 35, 45>>

AqRow(i, k, missing, gap) ==
    [city   |-> PipeCities[i],
     region |-> BaseRegion[i],
     month  |-> k,
     pm25   |-> IF i <= missing \/ (gap /\ k = 2) THEN NaN
                ELSE (BasePm25[i] + PmStep[i] * ((k - 1) \div 2)) * Scale,
     pm10   |-> IF i = 1 THEN NaN ELSE 2 * BasePm25[i] * Scale]

\* The monthly table, month by month.
AqTable(n, m, missing, gap) ==
    [r \in 1..(n * m) |->
        AqRow(((r - 1) % n) + 1, ((r - 1) \div n) + 1, missing, gap)]

SuppRow(i, green) ==
    [city                   |-> PipeCities[i],
     population             |-> BasePopulation[i],
     population_density     |-> BaseDensity[i] * One,
     green_space_pct        |-> IF green THEN BaseGreen[i] * One ELSE NaN,
     traffic_congestion_pct |-> BaseCongestion[i] * One]

SuppTable(n, kind) ==
    CASE kind = "none"         -> <<>>
      [] kind = "complete"     -> [i \in 1..n |-> SuppRow(i, TRUE)]
      [] kind = "first_absent" -> [i \in 1..n |-> SuppRow(i + 1, TRUE)]
      [] kind = "no_green"     -> [i \in 1..n |-> SuppRow(i, FALSE)]
      [] kind = "duplicate"    ->
            [i \in 1..(n + 1) |->
                IF i <= n THEN SuppRow(i, TRUE)
                ELSE [SuppRow(1, TRUE) EXCEPT !.population = BasePopulation[2]]]

SuppKinds == {"none", "complete", "first_absent", "no_green", "duplicate"}

InitMain ==
    /\ \E n \in 0..MaxPipeCities, m \in 1..MaxMonths, missing \in 0..MaxPipeCities,
          gap \in BOOLEAN, kind \in SuppKinds :
          /\ missing <= n
          /\ aq_df = AqTable(n, m, missing, gap)
          /\ supp_df = SuppTable(n, kind)
    /\ importable \in BOOLEAN
    /\ pc = "load"
    /\ monthly_df = <<>> /\ ts_df = <<>> /\ summary_df = <<>> /\ clustered_df = <<>>
    /\ files = {} /\ log = {}
    /\ FillIdle
    /\ ClusterIdle
    /\ AqiIdle
    /\ ToolsIdle

\* [1/6] the tables are loaded; main returns when there is no air quality data.
LoadData ==
    /\ pc = "load"
    /\ IF aq_df = <<>>
       THEN /\ pc' = "returned"
            /\ log' = log \cup {<<"Cannot proceed without air quality data">>}
       ELSE /\ pc' = "merge"
            /\ UNCHANGED log
    /\ UNCHANGED <<importable, aq_df, supp_df, monthly_df, ts_df, summary_df,
                   clustered_df, files, fillVars, clusterVars, aqiVars, toolVars>>

\* [2/6]
MergeData ==
    /\ pc = "merge"
    /\ monthly_df' = merge_data(aq_df, supp_df)
    /\ pc' = "fill"
    /\ UNCHANGED <<importable, aq_df, supp_df, ts_df, summary_df, clustered_df,
                   files, log, fillVars, clusterVars, aqiVars, toolVars>>

\* [3/6]
FillMissing ==
    /\ pc = "fill"
    /\ monthly_df' = fill_missing_values(monthly_df)
    /\ pc' = "derive"
    /\ UNCHANGED <<importable, aq_df, supp_df, ts_df, summary_df, clustered_df,
                   files, log, fillVars, clusterVars, aqiVars, toolVars>>

\* [4/6]
ComputeDerived ==
    /\ pc = "derive"
    /\ monthly_df' = compute_derived_metrics(monthly_df)
    /\ pc' = "timeseries"
    /\ UNCHANGED <<importable, aq_df, supp_df, ts_df, summary_df, clustered_df,
                   files, log, fillVars, clusterVars, aqiVars, toolVars>>

\* [5/6], first half: the missing columns are added to the table in place,
\* the timeseries table is written.
GenerateTimeseries ==
    /\ pc = "timeseries"
    /\ monthly_df' = WithRequiredCols(monthly_df)
    /\ ts_df' = generate_timeseries_csv(monthly_df)
    /\ files' = files \cup {"cities_timeseries.csv"}
    /\ log' = log \cup {<<"Missing column", c>> :
                           c \in Range(required_cols) \ Columns(monthly_df)}
    /\ pc' = "summary"
    /\ UNCHANGED <<importable, aq_df, supp_df, summary_df, clustered_df,
                   fillVars, clusterVars, aqiVars, toolVars>>

\* [5/6], second half: the summary table is written, whatever the final data
\* quality check finds.
GenerateSummary ==
    /\ pc = "summary"
    /\ summary_df' = generate_summary_csv(ts_df)
    /\ files' = files \cup {"cities_summary.csv"}
    /\ log' = log \cup StillNaN(summary_df')
    /\ pc' = "cluster"
    /\ UNCHANGED <<importable, aq_df, supp_df, monthly_df, ts_df, clustered_df,
                   fillVars, clusterVars, aqiVars, toolVars>>

\* [6/6] run_clustering(summary_df): the clustered table is written when
\* perform_clustering returns; an ImportError and every other exception are
\* logged and the summary table is returned.
RunClustering ==
    /\ pc = "cluster"
    /\ IF ~importable
       THEN /\ clustered_df' = summary_df
            /\ log' = log \cup {<<"Skipping clustering">>}
            /\ UNCHANGED files
       ELSE \E fit \in KMeansLabellings(prepare_clustering_features(summary_df),
                                        n_clusters) :
               LET res == perform_clustering(summary_df, n_clusters, fit)
               IN  IF res.status = "ok"
                   THEN /\ clustered_df' = res.df_clustered
                        /\ files' = files \cup {"cities_clustered.csv"}
                        /\ log' = log \cup {<<"Clustering completed successfully">>}
                   ELSE /\ clustered_df' = summary_df
                        /\ log' = log \cup {<<"Clustering failed", res.status>>}
                        /\ UNCHANGED files
    /\ pc' = "final"
    /\ UNCHANGED <<importable, aq_df, supp_df, monthly_df, ts_df, summary_df,
                   fillVars, clusterVars, aqiVars, toolVars>>

\* The final summary of main.
Complete ==
    /\ pc = "final"
    /\ log' = log \cup {<<"PROCESSING COMPLETE">>}
    /\ pc' = "complete"
    /\ UNCHANGED <<importable, aq_df, supp_df, monthly_df, ts_df, summary_df,
                   clustered_df, files, fillVars, clusterVars, aqiVars, toolVars>>

NextMain ==
    \/ LoadData
    \/ MergeData
    \/ FillMissing
    \/ ComputeDerived
    \/ GenerateTimeseries
    \/ GenerateSummary
    \/ RunClustering
    \/ Complete

SpecMain == InitMain /\ [][NextMain]_vars

(***************************************************************************)
(* Properties of main.                                                     *)
(***************************************************************************)
\* generate_summary_csv has returned.
SummaryDone == pc \in {"cluster", "final", "complete"}

\* Column c of table t has no value at all.
AllMissing(t, c) == \A r \in DOMAIN t : isna(t[r][c])

\* C7: after generate_summary_csv, each of the four clustering feature
\* columns that had at least one non-missing value among the summary rows
\* has no missing value in any summary row.
C7_ImputationComplete ==
    SummaryDone =>
        \A k \in DOMAIN feature_cols :
            Known(GroupedSummary(ts_df), feature_cols[k]) # <<>> =>
                \A r \in DOMAIN summary_df : notna(summary_df[r][feature_cols[k]])

\* generate_summary_csv has filled the missing population density of a city
\* and the missing PM2.5 mean of a city with the medians of the other cities.
C7_Witness ==
    /\ SummaryDone
    /\ \E r \in DOMAIN summary_df :
          /\ isna(GroupedSummary(ts_df)[r].population_density)
          /\ notna(summary_df[r].population_density)
          /\ isna(GroupedSummary(ts_df)[r].pm25)
          /\ notna(summary_df[r].pm25)

\* C8: a summary in which a clustering feature column has no non-missing
\* value is never handed on to clustering.
C8_AllMissingColumnIsFatal ==
    pc = "cluster" =>
        \A k \in DOMAIN feature_cols : ~AllMissing(summary_df, feature_cols[k])

\* C10: a run of main in which clustering failed never logs PROCESSING
\* COMPLETE, and never ends with the timeseries and summary tables written
\* but no clustered table.
C10_HaltsOnClusteringFailure ==
    <<"Clustering failed", "ValueError">> \in log =>
        /\ <<"PROCESSING COMPLETE">> \notin log
        /\ ~(/\ pc = "complete"
             /\ {"cities_timeseries.csv", "cities_summary.csv"} \subseteq files
             /\ "cities_clustered.csv" \notin files)

\* The static table has at most one row per city.
KeyedByCity(supp) ==
    \A i, j \in DOMAIN supp : supp[i].city = supp[j].city => i = j

\* The table has at most one row per city and month.
OneRowPerMonth(t) ==
    \A i, j \in DOMAIN t :
        (t[i].city = t[j].city /\ t[i].month = t[j].month) => i = j

CitiesOf(t) == {t[r].city : r \in DOMAIN t}

\* C16: merge_data on a pollutant table with at most one row per city and
\* month and a static table keyed by city returns every pollutant row
\* exactly once, unchanged; the rows of a city absent from the static table
\* have missing static attributes, the others the attributes of their city;
\* no row comes from the static table alone.
C16_LeftJoin ==
    (pc = "fill" /\ OneRowPerMonth(aq_df) /\ KeyedByCity(supp_df)) =>
        /\ Len(monthly_df) = Len(aq_df)
        /\ OneRowPerMonth(monthly_df)
        /\ CitiesOf(monthly_df) = CitiesOf(aq_df)
        /\ \A r \in DOMAIN monthly_df :
              /\ \A c \in DOMAIN aq_df[r] : monthly_df[r][c] = aq_df[r][c]
              /\ \A k \in DOMAIN supp_cols :
                    /\ monthly_df[r].city \notin CitiesOf(supp_df)
                          => isna(Get(monthly_df[r], supp_cols[k]))
                    /\ \A q \in DOMAIN supp_df :
                          supp_df[q].city = monthly_df[r].city
                             => monthly_df[r][supp_cols[k]] = supp_df[q][supp_cols[k]]

\* merge_data has merged a pollutant table of two or more cities with a
\* static table, keyed by city, that lacks one of the cities and has a city
\* without pollutant rows.
C16_Witness ==
    /\ pc = "fill"
    /\ KeyedByCity(supp_df)
    /\ Cardinality(CitiesOf(aq_df)) >= 2
    /\ CitiesOf(aq_df) \ CitiesOf(supp_df) # {}
    /\ CitiesOf(supp_df) \ CitiesOf(aq_df) # {}
    /\ CitiesOf(supp_df) \cap CitiesOf(aq_df) # {}

\* generate_timeseries_csv has returned.
TimeseriesDone == pc \in {"summary", "cluster", "final", "complete"}

static_fields == <<"population", "population_density", "green_space_pct",
                   "traffic_intensity">>

\* C17: in the per-city-per-month table the pipeline produces, every static
\* field of a city that is absent from the static table is missing.
C17_StaticFieldsStayMissing ==
    TimeseriesDone =>
        \A r \in DOMAIN ts_df :
            ts_df[r].city \notin CitiesOf(supp_df) =>
                \A k \in DOMAIN static_fields : isna(ts_df[r][static_fields[k]])

\* C18: the median imputation of generate_summary_csv changes only the four
\* clustering feature columns; every other column of the summary keeps the
\* value it had after aggregation, missing values included.
C18_OnlyFeaturesImputed ==
    SummaryDone =>
        \A r \in DOMAIN summary_df :
            \A c \in DOMAIN summary_df[r] \ Range(feature_cols) :
                summary_df[r][c] = GroupedSummary(ts_df)[r][c]

\* C19: in the summary table that is written, every pollutant value is a
\* multiple of 0.1 and every air_quality_index and population_density value
\* is an integer, imputed values included.
C19_SummaryRounded ==
    "cities_summary.csv" \in files =>
        \A r \in DOMAIN summary_df :
            /\ \A k \in DOMAIN PollutantCols :
                  LET v == summary_df[r][PollutantCols[k]]
                  IN  notna(v) => v % Scale = 0
            /\ \A c \in {"air_quality_index", "population_density"} :
                  notna(summary_df[r][c]) => summary_df[r][c] % One = 0

\* C20: every row of the clustered table that is written has, next to the
\* columns of the summary, the final cluster ID, the two projection
\* coordinates and a column with the name of the cluster.
C20_ClusteredColumns ==
    "cities_clustered.csv" \in files =>
        \A r \in DOMAIN clustered_df :
            /\ {"cluster", "pca_1", "pca_2"} \subseteq DOMAIN clustered_df[r]
            /\ \E c \in DOMAIN clustered_df[r] \ DOMAIN summary_df[r] :
                  c \notin {"cluster", "pca_1", "pca_2"}

\* C22: when the monthly pollutant table or the static table is missing or
\* empty, main writes no output table.
C22_AbortsWithoutInput ==
    (aq_df = <<>> \/ supp_df = <<>>) => files = {}

\* C22, the part that holds: without the monthly pollutant table main
\* returns before any stage runs, and nothing is written.
C22_AbortsWithoutPollutantTable ==
    aq_df = <<>> => (files = {} /\ pc \in {"load", "returned"})

\* The rows of table t of the given city.
RowsOfCity(t, city) == {r \in DOMAIN t : t[r].city = city}

\* C23: generate_summary_csv produces exactly one summary row per distinct
\* city of the monthly table: no city is dropped, none is in two rows.
C23_OneRowPerCity ==
    SummaryDone =>
        /\ CitiesOf(summary_df) = CitiesOf(ts_df)
        /\ \A city \in CitiesOf(ts_df) :
              Cardinality(RowsOfCity(summary_df, city)) = 1

\* C23, the part that holds: with at most one static row per city the
\* summary has exactly one row per city of the monthly table.
C23_OneRowPerCityWhenKeyed ==
    KeyedByCity(supp_df) => C23_OneRowPerCity

\* compute_derived_metrics has returned.
DerivedDone == pc \in {"timeseries", "summary", "cluster", "final", "complete"}

\* C24: AQI is computed after the missing values are filled: in the monthly
\* table every row's AQI is compute_aqi of its PM2.5, a row whose PM2.5 was
\* filled by interpolation has a defined AQI, and the AQI is missing exactly
\* when the PM2.5 is still missing.
C24_AqiAfterFill ==
    DerivedDone =>
        \A r \in DOMAIN monthly_df :
            /\ monthly_df[r].air_quality_index = compute_aqi(monthly_df[r].pm25)
            /\ (isna(merge_data(aq_df, supp_df)[r].pm25) /\ notna(monthly_df[r].pm25))
                  => notna(monthly_df[r].air_quality_index)
            /\ isna(monthly_df[r].air_quality_index) <=> isna(monthly_df[r].pm25)

\* C24, the part that holds: every row's AQI is compute_aqi of the PM2.5 the
\* row has after filling, and a row without PM2.5 has no AQI.
C24_AqiOfFilledValue ==
    DerivedDone =>
        \A r \in DOMAIN monthly_df :
            /\ monthly_df[r].air_quality_index = compute_aqi(monthly_df[r].pm25)
            /\ isna(monthly_df[r].pm25) => isna(monthly_df[r].air_quality_index)

\* C27: fill_missing_values only replaces missing pollutant cells: the table
\* it returns has the rows of the merged table in the same order with the
\* same columns, and a cell differs only where a missing pm25, pm10, no2 or
\* o3 value has been filled.
C27_FillFrame ==
    pc = "derive" =>
        LET before == merge_data(aq_df, supp_df)
        IN  /\ Len(monthly_df) = Len(before)
            /\ \A r \in DOMAIN monthly_df :
                  /\ DOMAIN monthly_df[r] = DOMAIN before[r]
                  /\ \A c \in DOMAIN before[r] :
                        monthly_df[r][c] # before[r][c] =>
                            /\ c \in Range(PollutantCols)
                            /\ isna(before[r][c])

\* fill_missing_values has filled a missing PM2.5 value in a table that
\* holds static columns, and has left another missing value as it was.
C27_Witness ==
    /\ pc = "derive"
    /\ "population_density" \in Columns(monthly_df)
    /\ \E r \in DOMAIN monthly_df :
          isna(merge_data(aq_df, supp_df)[r].pm25) /\ notna(monthly_df[r].pm25)
    /\ \E r \in DOMAIN monthly_df : isna(monthly_df[r].pm25)

(***************************************************************************)
(* find_optimal_clusters (clustering.py).                                  *)
(*                                                                         *)
(* Of the feature matrix only what decides how KMeans and silhouette_score *)
(* answer is kept: the number of its rows, the number of its distinct rows *)
(* and whether a value is missing.  The inertia and the silhouette score   *)
(* of a fit are left open: every curve over the levels below is tried.     *)
(***************************************************************************)
\* Largest max_k and largest number of rows of X_scaled.
MaxK == 4

MaxSamples == 4

InertiaLevels == {0, One, 3 * One}

SilhouetteLevels == {-(One \div 2), 0, One \div 2}

\* K_range = range(2, max_k + 1)
K_range(mk) == [i \in 1..(mk - 1) |-> i + 1]

\* KMeans(n_clusters=k).fit raises a ValueError for a matrix with a missing
\* value or with fewer rows than clusters.
KMeansRaises(X, k) == X.nan \/ X.n_samples < k

\* The number of distinct labels of the fit: k when the matrix has k distinct
\* rows or more, one per distinct row otherwise.
n_labels(X, k) == IF X.n_distinct >= k THEN k ELSE X.n_distinct

\* silhouette_score raises a ValueError unless the number of labels is
\* between 2 and n_samples - 1.
SilhouetteRaises(X, k) ==
    ~(2 <= n_labels(X, k) /\ n_labels(X, k) <= X.n_samples - 1)

\* np.diff
diff(s) == [i \in 1..(Len(s) - 1) |-> s[i + 1] - s[i]]

\* np.argmin of a sequence that is not empty: the 0-based index of the
\* first smallest element.
argmin(s) ==
    (CHOOSE i \in DOMAIN s :
        /\ \A j \in DOMAIN s : s[i] <= s[j]
        /\ \A j \in DOMAIN s : j < i => s[j] > s[i]) - 1

\* np.argmax of a sequence that is not empty: the first largest element.
argmax(s) ==
    (CHOOSE i \in DOMAIN s :
        /\ \A j \in DOMAIN s : s[i] >= s[j]
        /\ \A j \in DOMAIN s : j < i => s[j] < s[i]) - 1

NoOptimal ==
    [status |-> "none", K_range |-> <<>>, inertias |-> <<>>,
     silhouette_scores |-> <<>>, elbow_k |-> NaN, silhouette_k |-> NaN,
     suggested_k |-> NaN]

OptimalRaised == [NoOptimal EXCEPT !.status = "ValueError"]

\* What the function does with the two curves once the loop is over.
\* np.argmin and np.argmax raise a ValueError on an empty sequence.
find_optimal_clusters(mk, ins, sils) ==
    LET improvements == diff(ins)
    IN  IF Len(improvements) = 0 \/ Len(sils) = 0 THEN OptimalRaised
        ELSE [status            |-> "ok",
              K_range           |-> K_range(mk),
              inertias          |-> ins,
              silhouette_scores |-> sils,
              elbow_k           |-> argmin(improvements) + 2,
              silhouette_k      |-> argmax(sils) + 2,
              suggested_k       |-> 4]

OptMatrices ==
    {[n_samples |-> n, n_distinct |-> d, nan |-> b] :
        n \in 0..MaxSamples, d \in 0..MaxSamples, b \in BOOLEAN}

InitOptimal ==
    /\ X_scaled \in {X \in OptMatrices :
                        /\ X.n_distinct <= X.n_samples
                        /\ X.n_samples > 0 => X.n_distinct > 0
                        /\ X.nan => X.n_samples > 0}
    /\ max_k \in 2..MaxK
    /\ inertias = <<>>
    /\ silhouette_scores = <<>>
    /\ optimal = NoOptimal
    /\ FillIdle /\ ClusterIdle /\ MainIdle /\ AqiIdle
    /\ ReqIdle /\ DashIdle

\* One turn of the loop over K_range: the fit and the score of the next K,
\* or the exception one of them raises.
FitNextK ==
    /\ optimal = NoOptimal
    /\ Len(inertias) < max_k - 1
    /\ LET k == K_range(max_k)[Len(inertias) + 1]
       IN  IF KMeansRaises(X_scaled, k) \/ SilhouetteRaises(X_scaled, k)
           THEN /\ optimal' = OptimalRaised
                /\ UNCHANGED <<inertias, silhouette_scores>>
           ELSE /\ \E inertia \in InertiaLevels :
                      inertias' = Append(inertias, inertia)
                /\ \E score \in SilhouetteLevels :
                      silhouette_scores' = Append(silhouette_scores, score)
                /\ UNCHANGED optimal
    /\ UNCHANGED <<X_scaled, max_k, fillVars, clusterVars, mainVars, aqiVars,
                   reqVars, dashVars>>

\* The rest of the function, after the loop.
SuggestK ==
    /\ optimal = NoOptimal
    /\ Len(inertias) = max_k - 1
    /\ optimal' = find_optimal_clusters(max_k, inertias, silhouette_scores)
    /\ UNCHANGED <<X_scaled, max_k, inertias, silhouette_scores, fillVars,
                   clusterVars, mainVars, aqiVars, reqVars, dashVars>>

NextOptimal == FitNextK \/ SuggestK

SpecOptimal == InitOptimal /\ [][NextOptimal]_vars

(***************************************************************************)
(* Claims about find_optimal_clusters (checked under SpecOptimal).         *)
(***************************************************************************)
\* The call has returned or raised.
OptimalDone == optimal # NoOptimal

\* What C25 says of a result: two parallel curves with one entry per K in
\* 2..max_k, elbow_k at the most negative first difference of the inertias,
\* silhouette_k at the largest silhouette score, both in 2..max_k, and
\* suggested_k = 4.
AsSuggested(res) ==
    LET d == diff(res.inertias)
    IN  /\ Len(res.inertias) = max_k - 1
        /\ Len(res.silhouette_scores) = max_k - 1
        /\ res.K_range = [i \in 1..(max_k - 1) |-> i + 1]
        /\ res.elbow_k \in 2..max_k
        /\ res.silhouette_k \in 2..max_k
        /\ res.elbow_k - 1 \in DOMAIN d
        /\ \A j \in DOMAIN d : d[res.elbow_k - 1] <= d[j]
        /\ \A j \in DOMAIN res.silhouette_scores :
              res.silhouette_scores[res.silhouette_k - 1] >=
                  res.silhouette_scores[j]
        /\ res.suggested_k = 4

\* C25: for every max_k >= 2 find_optimal_clusters completes and returns
\* inertias and silhouette_scores as parallel sequences with one entry per K
\* in 2..max_k, elbow_k at the steepest inertia drop, silhouette_k at the
\* maximum silhouette score, both in 2..max_k, and suggested_k = 4.
C25_CompletesWithSuggestions ==
    OptimalDone => (optimal.status = "ok" /\ AsSuggested(optimal))

\* C25, the part that holds: a call that returns has returned what the claim
\* describes.
C25_SuggestionsWhenReturned ==
    optimal.status = "ok" => AsSuggested(optimal)

\* C25, where it fails: the call raises for max_k = 2, for a matrix with
\* fewer rows than max_k and for a matrix of max_k distinct rows.
C25_RaisesOnShortCurve ==
    (OptimalDone /\ (\/ max_k = 2
                     \/ X_scaled.n_samples < max_k
                     \/ X_scaled.n_distinct = X_scaled.n_samples
                           /\ X_scaled.n_samples = max_k))
        => optimal.status = "ValueError"

(***************************************************************************)
(* OpenAQFetcher._request (fetch_openaq.py).                               *)
(*                                                                         *)
(* What an attempt meets is the status code of the response, with its body *)
(* for a 200, or the exception session.get raises.  The body of a 200 is   *)
(* either JSON or not JSON: response.json() then raises, in requests 2.27  *)
(* and later a requests.exceptions.JSONDecodeError (a RequestException),   *)
(* in earlier versions a ValueError that is no RequestException.  The      *)
(* version of requests is not pinned: both outcomes are kept.              *)
(***************************************************************************)
\* Largest number of attempts a caller allows.
MaxAttempts == 3

EmptyResults == [results |-> <<>>]

NotJson == [results |-> <<"not JSON">>]

\* What an attempt can meet.
Outcomes ==
    {[code |-> "200", body |-> b] :
        b \in {EmptyResults, [results |-> <<"location">>], NotJson}}
    \cup {[code |-> c, body |-> EmptyResults] :
             c \in {"429", "404", "500", "Timeout", "RequestException"}}

NoResponse == [status |-> "none", body |-> EmptyResults]

Returned(b) == [status |-> "returned", body |-> b]

\* The body of the loop for an attempt that meets o: what _request returns
\* or raises, or NoResponse if the loop goes on.
AfterAttempt(o, json_error_caught) ==
    IF o.code = "200" /\ o.body # NotJson THEN Returned(o.body)
    ELSE IF o.code = "200" /\ ~json_error_caught
         THEN [status |-> "ValueError", body |-> EmptyResults]
    ELSE IF o.code = "404" THEN Returned(EmptyResults)
    ELSE NoResponse

InitRequest ==
    /\ retries \in 0..MaxAttempts
    /\ attempt = 0
    /\ responses = <<>>
    /\ response = NoResponse
    /\ FillIdle /\ ClusterIdle /\ MainIdle /\ AqiIdle
    /\ OptIdle /\ DashIdle

\* One turn of `for attempt in range(retries)`.
Attempt ==
    /\ response = NoResponse
    /\ attempt < retries
    /\ \E o \in Outcomes, json_error_caught \in BOOLEAN :
          /\ responses' = Append(responses, o)
          /\ response' = AfterAttempt(o, json_error_caught)
    /\ attempt' = attempt + 1
    /\ UNCHANGED <<retries, fillVars, clusterVars, mainVars, aqiVars, optVars,
                   dashVars>>

\* The return after the loop.
AllAttemptsFailed ==
    /\ response = NoResponse
    /\ attempt = retries
    /\ response' = Returned(EmptyResults)
    /\ UNCHANGED <<retries, attempt, responses, fillVars, clusterVars,
                   mainVars, aqiVars, optVars, dashVars>>

NextRequest == Attempt \/ AllAttemptsFailed

SpecRequest == InitRequest /\ [][NextRequest]_vars

(***************************************************************************)
(* Claims about _request (checked under SpecRequest).                      *)
(***************************************************************************)
RequestDone == response # NoResponse

\* C28: _request ends after at most `retries` attempts for any sequence of
\* responses and failures: it returns the parsed body at the first 200
\* response, the empty result at the first 404 without a further attempt,
\* retries after 429, other statuses, timeouts and request exceptions,
\* propagates no exception, and returns the empty result when all attempts
\* are used up.
C28_BoundedRetries ==
    /\ attempt = Len(responses)
    /\ attempt <= retries
    /\ RequestDone => response.status = "returned"
    /\ \A i \in DOMAIN responses :
          LET o == responses[i]
          IN  IF o.code = "200"
              THEN /\ i = Len(responses)
                   /\ RequestDone /\ response.body = o.body
              ELSE IF o.code = "404"
              THEN /\ i = Len(responses)
                   /\ RequestDone /\ response.body = EmptyResults
              ELSE /\ i < Len(responses) \/ ~RequestDone \/ i = retries
                   /\ (RequestDone /\ i = Len(responses))
                         => response.body = EmptyResults
    /\ (RequestDone /\ responses = <<>>) => response.body = EmptyResults

\* C28, the part that holds: the same with "200 response" read as a 200
\* whose body is JSON, as long as no 200 with another body has been met.
C28_WhenBodiesAreJson ==
    (\A i \in DOMAIN responses : responses[i].body # NotJson)
        => C28_BoundedRetries

(***************************************************************************)
(* The dashboard callbacks (callbacks.py).                                 *)
(*                                                                         *)
(* df_summary is the table load_data reads from cities_clustered.csv: the  *)
(* city summary the pipeline has written.  It has one row per city when    *)
(* the static table is keyed by city, and two rows for a city that the     *)
(* static table lists twice; Vienna is in it when the pipeline was given   *)
(* data for Vienna.                                                        *)
(***************************************************************************)
DashRow(city, region, cluster, pm25) ==
    [city |-> city, region |-> region, cluster |-> cluster, pm25 |-> pm25 * One]

DashTables ==
    { << DashRow("Vienna", "Europe", 1, 10), DashRow("Oslo", "Europe", 1, 5),
         DashRow("Cairo", "Africa", 3, 70) >>,
      << DashRow("Oslo", "Europe", 1, 5), DashRow("Cairo", "Africa", 3, 70) >>,
      << DashRow("Vienna", "Europe", 1, 10), DashRow("Vienna", "Europe", 1, 10),
         DashRow("Oslo", "Europe", 1, 5), DashRow("Cairo", "Africa", 3, 70) >> }

\* CLUSTER_NAMES of styles.py: the name of cluster cid is CLUSTER_NAMES[cid + 1].
CLUSTER_NAMES ==
    <<"Clean & Green", "Moderate Urban", "High Density", "Industrial/Polluted">>

\* df_summary[df_summary['cluster'] == cid]['city'].tolist()
ClusterCities(t, cid) ==
    LET rows == SelectSeq(t, LAMBDA row : row.cluster = cid)
    IN  [k \in DOMAIN rows |-> rows[k].city]

\* df_summary.nsmallest(n, 'pm25')['city'].tolist(): the rows with a PM2.5
\* value by rising PM2.5, rows of equal PM2.5 in row order, the first n.
nsmallest(t, n) ==
    LET valid == {r \in DOMAIN t : notna(t[r].pm25)}
        rank(r) == Cardinality({q \in valid :
                        \/ t[q].pm25 < t[r].pm25
                        \/ t[q].pm25 = t[r].pm25 /\ q < r}) + 1
        m == IF Cardinality(valid) < n THEN Cardinality(valid) ELSE n
    IN  [k \in 1..m |-> t[CHOOSE r \in valid : rank(r) = k].city]

\* The value of a clickData or selectedData property: None (set = FALSE) or
\* a dict whose 'points' are given by what names the point, the city in
\* 'customdata' (for a box, the cluster name in 'x'); "" is a point without
\* it.
None == [set |-> FALSE, points |-> <<>>]

EventData(points) == [set |-> TRUE, points |-> points]

NoInputs ==
    [map_click |-> None, scatter_selected |-> None, scatter_click |-> None,
     box_click |-> None, bar_click |-> None]

\* current.remove(city) if city in current, else current.append(city)
toggle(current, city) ==
    IF city \in Range(current)
    THEN LET i == CHOOSE i \in DOMAIN current :
                     current[i] = city /\ \A j \in 1..(i - 1) : current[j] # city
         IN  SubSeq(current, 1, i - 1) \o SubSeq(current, i + 1, Len(current))
    ELSE Append(current, city)

\* A click that names a city: the first point has a customdata.
\* points[0] of an empty list raises an IndexError, which is passed over.
NamesCity(click) ==
    click.set /\ Len(click.points) > 0 /\ click.points[1] # ""

\* update_selection called for the component triggered_id with the
\* properties in `in` and the store holding `current`: the new data of the
\* store.  The callback raises an IndexError for the Vienna button when
\* df_summary has no row for Vienna; the store then keeps its data.
update_selection(triggered_id, in, current, t) ==
    IF triggered_id = "btn-reset" THEN <<>>
    ELSE IF triggered_id = "btn-vienna-cluster"
    THEN IF \A r \in DOMAIN t : t[r].city # "Vienna" THEN current
         ELSE LET v == CHOOSE r \in DOMAIN t :
                           /\ t[r].city = "Vienna"
                           /\ \A q \in 1..(r - 1) : t[q].city # "Vienna"
              IN  ClusterCities(t, t[v].cluster)
    ELSE IF triggered_id = "btn-top-clean" THEN nsmallest(t, 10)
    ELSE IF triggered_id = "map-chart" /\ NamesCity(in.map_click)
    THEN toggle(current, in.map_click.points[1])
    ELSE IF triggered_id = "scatter-chart" /\ in.scatter_selected.set
    THEN SelectSeq(in.scatter_selected.points, LAMBDA point : point # "")
    ELSE IF triggered_id = "scatter-chart" /\ NamesCity(in.scatter_click)
    THEN toggle(current, in.scatter_click.points[1])
    ELSE IF /\ triggered_id = "boxplot-chart" /\ NamesCity(in.box_click)
            /\ in.box_click.points[1] \in Range(CLUSTER_NAMES)
    THEN LET cid == (CHOOSE i \in DOMAIN CLUSTER_NAMES :
                        CLUSTER_NAMES[i] = in.box_click.points[1]) - 1
         IN  ClusterCities(t, cid)
    ELSE IF triggered_id = "comparison-chart" /\ NamesCity(in.bar_click)
    THEN toggle(current, in.bar_click.points[1])
    ELSE current

(***************************************************************************)
(* Specification SpecSelection: the events update_selection is called for. *)
(* An event sets the property of its component and calls update_selection  *)
(* with the properties of all components as they are then; the properties  *)
(* of the other components keep the value of their last event.             *)
(***************************************************************************)
\* What a click on a point of the map, the scatter plot or the bar chart
\* carries: a city, or a point without customdata.
ClickPoints == {<<"Vienna">>, <<"Oslo">>, <<"">>}

\* What a lasso or box selection in the scatter plot carries.
SelectedPoints == {<<>>, <<"Oslo", "Cairo">>, <<"Vienna">>}

BoxPoints == {<<"Moderate Urban">>, <<"Other">>}

InitSelection ==
    /\ df_summary \in DashTables
    /\ current_selection = <<>>
    /\ inputs = NoInputs
    /\ filters = <<>> /\ df_filtered = <<>> /\ charts_pc = "idle"
    /\ FillIdle /\ ClusterIdle /\ MainIdle /\ AqiIdle
    /\ OptIdle /\ ReqIdle

\* What no event of the selection changes.
selFrame == <<df_summary, filters, df_filtered, charts_pc, fillVars,
              clusterVars, mainVars, aqiVars, optVars, reqVars>>

\* A click on a point of the map.
MapClick ==
    \E points \in ClickPoints :
        /\ inputs' = [inputs EXCEPT !.map_click = EventData(points)]
        /\ current_selection' =
               update_selection("map-chart", inputs', current_selection, df_summary)
        /\ UNCHANGED selFrame

\* A lasso or box selection in the scatter plot, or its removal.
ScatterSelect ==
    \E value \in {EventData(points) : points \in SelectedPoints} \cup {None} :
        /\ inputs' = [inputs EXCEPT !.scatter_selected = value]
        /\ current_selection' =
               update_selection("scatter-chart", inputs', current_selection,
                                df_summary)
        /\ UNCHANGED selFrame

\* A click on a point of the scatter plot.
ScatterClick ==
    \E points \in ClickPoints :
        /\ inputs' = [inputs EXCEPT !.scatter_click = EventData(points)]
        /\ current_selection' =
               update_selection("scatter-chart", inputs', current_selection,
                                df_summary)
        /\ UNCHANGED selFrame

\* A click on a box of the box plot.
BoxClick ==
    \E points \in BoxPoints :
        /\ inputs' = [inputs EXCEPT !.box_click = EventData(points)]
        /\ current_selection' =
               update_selection("boxplot-chart", inputs', current_selection,
                                df_summary)
        /\ UNCHANGED selFrame

\* A click on a bar of the comparison chart.
BarClick ==
    \E points \in ClickPoints :
        /\ inputs' = [inputs EXCEPT !.bar_click = EventData(points)]
        /\ current_selection' =
               update_selection("comparison-chart", inputs', current_selection,
                                df_summary)
        /\ UNCHANGED selFrame

\* One of the three quick-filter buttons: no property update_selection
\* reads from changes.
Button ==
    \E id \in {"btn-vienna-cluster", "btn-top-clean", "btn-reset"} :
        /\ current_selection' =
               update_selection(id, inputs, current_selection, df_summary)
        /\ UNCHANGED <<inputs, selFrame>>

NextSelection ==
    MapClick \/ ScatterSelect \/ ScatterClick \/ BoxClick \/ BarClick \/ Button

SpecSelection == InitSelection /\ [][NextSelection]_vars

(***************************************************************************)
(* Claims about update_selection (checked under SpecSelection).            *)
(***************************************************************************)
NoDuplicates(s) == \A i, j \in DOMAIN s : s[i] = s[j] => i = j

\* The selection after a click on `city` in the chart `id` whose clickData
\* is the property prop, from the selection `current`.
AfterClick(id, prop, city, current) ==
    update_selection(id, [inputs EXCEPT ![prop] = EventData(<<city>>)],
                     current, df_summary)

ClickCharts ==
    {<<"map-chart", "map_click">>, <<"scatter-chart", "scatter_click">>,
     <<"comparison-chart", "bar_click">>}

\* Two clicks in a row on the same city in chart c give the selection back.
TwiceRestores(c) ==
    \A city \in {"Vienna", "Oslo", "Cairo"} :
        AfterClick(c[1], c[2], city,
                   AfterClick(c[1], c[2], city, current_selection))
            = current_selection

\* An event of chart c that carries no city leaves the selection as it is.
NoCityKeeps(c) ==
    AfterClick(c[1], c[2], "", current_selection) = current_selection

\* C29: the selection stays duplicate-free under single-city clicks and
\* quick-filter buttons; clicking the same city twice in a row restores the
\* selection that held before the first click; the reset button yields the
\* empty selection from every state; an event that carries no valid city
\* leaves the selection unchanged.
C29_SelectionAlgebra ==
    /\ NoDuplicates(current_selection)
    /\ \A c \in ClickCharts : TwiceRestores(c)
    /\ update_selection("btn-reset", inputs, current_selection, df_summary) = <<>>
    /\ \A c \in ClickCharts : NoCityKeeps(c)
    /\ update_selection("boxplot-chart",
                        [inputs EXCEPT !.box_click = EventData(<<"Other">>)],
                        current_selection, df_summary) = current_selection
    /\ \A points \in {<<>>, <<"">>} :
          update_selection("scatter-chart",
                           [inputs EXCEPT !.scatter_selected = EventData(points)],
                           current_selection, df_summary) = current_selection
    /\ update_selection("scatter-chart",
                        [inputs EXCEPT !.scatter_selected = None],
                        current_selection, df_summary) = current_selection

\* C29, parts that hold: the reset button yields the empty selection from
\* every state, and the selection is duplicate-free when df_summary has one
\* row per city.
C29_ResetAndNoDuplicates ==
    /\ update_selection("btn-reset", inputs, current_selection, df_summary) = <<>>
    /\ NoDuplicates([r \in DOMAIN df_summary |-> df_summary[r].city])
          => NoDuplicates(current_selection)

\* C29, parts that hold: on the map and in the bar chart two clicks on the
\* same city give back the same cities (the city moves to the end of the
\* list when it was selected before), and a click without a city changes
\* nothing; the same holds in the scatter plot while it has no lasso or box
\* selection.
C29_ToggleOutsideLasso ==
    NoDuplicates(current_selection) =>
        \A c \in ClickCharts :
            (c[1] # "scatter-chart" \/ ~inputs.scatter_selected.set) =>
                /\ NoCityKeeps(c)
                /\ \A city \in {"Vienna", "Oslo", "Cairo"} :
                      Range(AfterClick(c[1], c[2], city,
                                AfterClick(c[1], c[2], city, current_selection)))
                          = Range(current_selection)

(***************************************************************************)
(* update_all_charts: the filtered city summary it passes to the charts.   *)
(* region is "" for None; clusters is <<>> for None and for the empty      *)
(* list, which the code treats alike.  The year filter is applied to the   *)
(* time series only.                                                       *)
(***************************************************************************)
update_all_charts(f, t) ==
    LET by_region  == IF f.region # "" /\ f.region # "all"
                      THEN SelectSeq(t, LAMBDA row : row.region = f.region)
                      ELSE t
        by_cluster == IF Len(f.clusters) > 0
                      THEN SelectSeq(by_region,
                               LAMBDA row : row.cluster \in Range(f.clusters))
                      ELSE by_region
        vienna_data == SelectSeq(t, LAMBDA row : row.city = "Vienna")
    IN  IF Len(SelectSeq(by_cluster, LAMBDA row : row.city = "Vienna")) = 0
        THEN by_cluster \o vienna_data
        ELSE by_cluster

Filters ==
    {[region |-> g, clusters |-> c, year_range |-> y] :
        g \in {"", "all", "Europe", "Africa", "Asia"},
        c \in {<<>>, <<0>>, <<1>>, <<3>>, <<0, 3>>, <<1, 3>>, <<0, 1, 2, 3>>},
        y \in {<<>>, <<2020, 2023>>, <<2021, 2022>>}}

InitCharts ==
    /\ df_summary \in DashTables
    /\ filters \in Filters
    /\ df_filtered = <<>>
    /\ charts_pc = "call"
    /\ current_selection = <<>> /\ inputs = <<>>
    /\ FillIdle /\ ClusterIdle /\ MainIdle /\ AqiIdle
    /\ OptIdle /\ ReqIdle

UpdateAllCharts ==
    /\ charts_pc = "call"
    /\ df_filtered' = update_all_charts(filters, df_summary)
    /\ charts_pc' = "done"
    /\ UNCHANGED <<df_summary, filters, current_selection, inputs, fillVars,
                   clusterVars, mainVars, aqiVars, optVars, reqVars>>

NextCharts == UpdateAllCharts

SpecCharts == InitCharts /\ [][NextCharts]_vars

(***************************************************************************)
(* Claims about update_all_charts (checked under SpecCharts).              *)
(***************************************************************************)
ViennaRows(t) == Len(SelectSeq(t, LAMBDA row : row.city = "Vienna"))

\* C30: for every combination of region, cluster and year filters the
\* filtered city summary passed to the charts contains Vienna exactly once.
C30_ViennaExactlyOnce ==
    charts_pc = "done" => ViennaRows(df_filtered) = 1

\* C30, the part that holds: the filtered summary has as many rows for
\* Vienna as df_summary has, whatever the filters keep: exactly one when
\* df_summary has one.
C30_ViennaAsInSummary ==
    charts_pc = "done" => ViennaRows(df_filtered) = ViennaRows(df_summary)

=============================================================================
